---- MODULE Spec2Model ----
(***************************************************************************)
(* File ingestion pipeline of RAG-AI: the lifecycle repository             *)
(* (db/repositories/knowledge_file_repo.py), the indexing orchestrator     *)
(* (services/indexing_service.py) and the loader (core/base_loader.py,     *)
(* adaptors/langchain/langchain_Loader.py).                                *)
(*                                                                         *)
(* Spec      one caller thread: repository calls and index_file, with a    *)
(*           store that may fail at every handle operation.                *)
(* SpecConc  two caller threads interleaved at the handle operations.      *)
(* SpecLoad  the load() generator pulled by a consumer.                    *)
(***************************************************************************)
EXTENDS Integers, Sequences, FiniteSets, TLC

\* ------------------------------------------------------------------ bounds
\* Number of uuid4 values available to insert (rows the table can hold).
MaxRecords == 2
\* Longest list of paths handed to load().
MaxPaths == 3
\* Longest list of inputs handed to run().
MaxInputs == 2
\* Calls (index_file, insert, update_status, get_by_id, get_by_kb_id) the
\* caller threads make in one run.
MaxOps == 3
\* The writes of RawDocs that may fail in one save().
MaxSaveFaults == 1

\* --------------------------------------------------------------- constants
\* Python None / SQL NULL in a string or record position.
NULL == "NULL"
\* Python None / SQL NULL in an integer position (Optional[int] = None).
NullInt == -1
\* kf_id = None: no record id yet.
NoId == 0

Workers == {"w1", "w2"}
KfIds == 1..MaxRecords
\* ENUM of the status column, as documented at update_status.
Statuses == {"pending", "parsed", "chunked", "embedded", "failed"}

\* ------------------------------------------------------------ file system
\* The files index_file and the loader are run on: directory data holds
\* doc.txt, NOTES.TXT, x.xyz and the directory sub, which holds deep.md;
\* scan.pdf, blank.md and empty.docx lie beside data; gone.txt does not
\* exist.
Paths ==
    {"data", "data/doc.txt", "data/NOTES.TXT", "data/x.xyz", "data/sub",
     "data/sub/deep.md", "scan.pdf", "blank.md", "empty.docx", "gone.txt"}

\* Path.exists() / Path.is_file() / Path.is_dir()
PathKind(p) ==
    CASE p = "gone.txt" -> "missing"
      [] p \in {"data", "data/sub"} -> "dir"
      [] OTHER -> "file"

\* Path.suffix, as written on disk.
Suffix(p) ==
    CASE p \in {"data/doc.txt", "gone.txt"} -> ".txt"
      [] p = "data/NOTES.TXT" -> ".TXT"
      [] p = "scan.pdf" -> ".pdf"
      [] p = "data/x.xyz" -> ".xyz"
      [] p \in {"blank.md", "data/sub/deep.md"} -> ".md"
      [] p = "empty.docx" -> ".docx"
      [] OTHER -> ""

\* The entries of a directory.
Children(d) ==
    CASE d = "data" -> {"data/doc.txt", "data/NOTES.TXT", "data/x.xyz", "data/sub"}
      [] d = "data/sub" -> {"data/sub/deep.md"}
      [] OTHER -> {}

\* The format backend throws on this file (a corrupt pdf).
BackendRaises(p) == p = "scan.pdf"

\* The page_content of each unit the format backend returns for the file, a
\* string written as the sequence of its characters.
BackendUnits(p) ==
    CASE p = "data/doc.txt" -> << <<"a", " ", "b">> >>
      [] p = "data/NOTES.TXT" -> << <<" ", "n">>, <<" ", "\n">>, << >>, <<"m">> >>
      [] p = "blank.md" -> << <<" ", "\n">> >>
      [] p = "data/x.xyz" -> << <<"x">> >>
      [] p = "data/sub/deep.md" -> << <<"d">> >>
      [] OTHER -> << >>

\* st_size and the md5 of the content, per file; st_mtime: every file was
\* last modified before the first call (time 0).
FileSize(p) == Len(BackendUnits(p))
FileMtime(p) == 0
Md5(p) == "md5:" \o p

\* ----------------------------------------------------------------- loader
\* LangchainLoaderAdapter.allowed_exts() and the keys of self._loader_map.
AllowedExts == {".pdf", ".docx", ".txt", ".md"}
LoaderMapKeys == {".pdf", ".docx", ".txt", ".md"}

\* str.lower() on the suffixes of the file system above.
Lower(ext) == IF ext = ".TXT" THEN ".txt" ELSE ext

\* str.strip(): leading and trailing whitespace removed.
Whitespace == {" ", "\n", "\t"}

RECURSIVE LStrip(_)
LStrip(t) ==
    IF t # << >> /\ Head(t) \in Whitespace THEN LStrip(Tail(t)) ELSE t

RECURSIVE RStrip(_)
RStrip(t) ==
    IF t # << >> /\ t[Len(t)] \in Whitespace
    THEN RStrip(SubSeq(t, 1, Len(t) - 1))
    ELSE t

Strip(t) == RStrip(LStrip(t))

\* An emptiness test that forgets strip().
IsEmptyContentNoStrip(t) == t = << >>

\* `not doc.page_content or not doc.page_content.strip()`
IsEmptyContent(t) == t = << >> \/ Strip(t) = << >>

\* A backend lookup that falls back to a default backend.
HasBackendWithFallback(ext) == TRUE

\* loader_class = self._loader_map.get(ext); `if not loader_class`
HasBackend(ext) == ext \in LoaderMapKeys

\* loader.load() of the langchain backend: one document per unit, with the
\* backend's own metadata.
BackendDocs(p) ==
    [k \in 1..Len(BackendUnits(p)) |->
        [page_content |-> BackendUnits(p)[k], metadata |-> [source |-> p]]]

\* RawDoc(text=doc.page_content, metadata=doc.metadata)
ToRawDoc(doc) == [text |-> doc.page_content, metadata |-> doc.metadata]

\* The parser_map dict of get_parser_name.
parser_map ==
    (".pdf" :> "pdf_parser") @@ (".docx" :> "docx_parser") @@
    (".txt" :> "txt_parser") @@ (".md" :> "markdown_parser")

\* A get_parser_name whose table has no entry for Markdown.
get_parser_name_without_md(p) ==
    LET ext == Lower(Suffix(p))
    IN  IF ext \in DOMAIN parser_map \ {".md"} THEN parser_map[ext]
        ELSE "unknown"

\* get_parser_name(file_path): ext = file_path.suffix.lower();
\* parser_map.get(ext, 'unknown').
get_parser_name(p) ==
    LET ext == Lower(Suffix(p))
    IN  IF ext \in DOMAIN parser_map THEN parser_map[ext] ELSE "unknown"

\* The generator object load(paths) returns.  i is the position in paths of
\* the file being processed, j the position of the next unit of that file
\* (0: the file is not opened yet), invoked the files whose backend was
\* called, out the RawDocs yielded so far, last the number of RawDocs the
\* latest next() produced (0 or 1).
NewGen(paths) ==
    [paths |-> paths, st |-> "created", i |-> 1, j |-> 0,
     invoked |-> << >>, out |-> << >>, last |-> 0]

\* A handler that lets the backend's exception leave the generator.
OnBackendErrorPropagates(g) == [g EXCEPT !.st = "raised"]

\* except Exception as e: log and `continue` with the next file.
OnBackendError(g) == [g EXCEPT !.i = g.i + 1, !.j = 0]

\* A load() that raises on a path it cannot read.
SkipPathRaises(g) == [g EXCEPT !.st = "raised"]

\* logger.warning(...); `continue`: on to the next path of the list.
SkipPath(g) == [g EXCEPT !.i = g.i + 1, !.j = 0]

\* One next() on the generator: the body of load() runs from where it was
\* suspended to its next `yield raw_doc`, or to the end of the loop.
RECURSIVE Resume(_)
Resume(g) ==
    IF g.st = "raised" THEN [g EXCEPT !.last = 0]
    ELSE IF g.i > Len(g.paths)
    THEN [g EXCEPT !.st = "done", !.last = 0]
    ELSE LET p == g.paths[g.i]
             nextFile == [g EXCEPT !.i = g.i + 1, !.j = 0]
         IN  IF g.j = 0
             THEN IF PathKind(p) = "missing" THEN Resume(SkipPath(g))
                  ELSE IF ~HasBackend(Lower(Suffix(p))) THEN Resume(SkipPath(g))
                  ELSE LET called == [g EXCEPT !.invoked = Append(g.invoked, p)]
                       IN  IF BackendRaises(p) THEN Resume(OnBackendError(called))
                           ELSE IF BackendDocs(p) = << >>
                           THEN Resume([called EXCEPT !.i = g.i + 1, !.j = 0])
                           ELSE Resume([called EXCEPT !.j = 1])
             ELSE IF g.j > Len(BackendDocs(p)) THEN Resume(nextFile)
                  ELSE IF IsEmptyContent(BackendDocs(p)[g.j].page_content)
                  THEN Resume([g EXCEPT !.j = g.j + 1])
                  ELSE [g EXCEPT !.st = "suspended", !.j = g.j + 1,
                                 !.out = Append(g.out, ToRawDoc(BackendDocs(p)[g.j])),
                                 !.last = 1]

\* list(generator): next() until StopIteration.
RECURSIVE Drain(_)
Drain(g) == IF g.st \in {"done", "raised"} THEN g ELSE Drain(Resume(g))

\* ------------------------------------------------------------------ state
VARIABLES
    rows,       \* table knowledge_file, committed rows: kf_id -> row
    call,       \* per caller thread: the repository call in progress
    svc,        \* per caller thread: the index_file call in progress
    gen,        \* the generator load() returned to the consumer
    found,      \* the last discover_files call: its root and its result,
                \* and the result of the call before it when on the same root
    job,        \* the run() call in progress: its position, its lists, and
                \* the output directory it writes
    nops        \* calls made so far by the caller threads

vars == <<rows, call, svc, gen, found, job, nops>>

\* ------------------------------------------------- repository: row values
NoTxn == [kind |-> "none"]
NoExc == [type |-> "none"]
NoResult == [kind |-> "none"]
NoArgs == [none |-> TRUE]

\* An exception raised at handle operation `at` of repository call `c`.
DbError(c, at) ==
    [type |-> "DbError", op |-> c.op, at |-> at,
     status |-> IF c.op = "update_status" THEN c.args.status ELSE NULL]

\* create_time = datetime.now(), read in insert() right after the id is
\* generated: one reading per id, after time 0, numbered like the ids.
Now(kf_id) == kf_id

\* The row INSERTed by insert() at time create_time: file_mtime left None
\* becomes create_time; columns not named in the statement (the other
\* optional arguments left None, and the stage columns) get the column
\* default NULL.
InsertRow(kf_id, a, create_time) ==
    [kf_id |-> kf_id, kb_id |-> a.kb_id, source_uri |-> a.source_uri,
     file_name |-> a.file_name, file_ext |-> a.file_ext,
     file_size |-> a.file_size,
     file_mtime |-> IF a.file_mtime = NullInt THEN create_time
                                              ELSE a.file_mtime,
     status |-> "parsed", create_time |-> create_time,
     version |-> a.version, custom_docs |-> a.custom_docs,
     source_type |-> a.source_type, checksum |-> a.checksum,
     parser_profile |-> a.parser_profile,
     chunk_count |-> NullInt, chunk_profile |-> NULL,
     vector_count |-> NullInt, embed_model |-> NULL]

\* The parameters of insert().
InsertParams ==
    {"kb_id", "source_uri", "file_name", "file_ext", "file_size",
     "source_type", "file_mtime", "checksum", "parser_profile", "version",
     "custom_docs"}

\* A signature whose version parameter defaults to 0.
ParamDefaultVersionZero(f) ==
    CASE f = "version" -> 0
      [] f = "custom_docs" -> 0
      [] f = "file_mtime" -> NullInt
      [] OTHER -> NULL

\* The defaults of insert()'s signature: `version: int = 1`,
\* `custom_docs: int = 0`, and None for the Optional parameters.
ParamDefault(f) ==
    CASE f = "version" -> 1
      [] f = "custom_docs" -> 0
      [] f = "file_mtime" -> NullInt
      [] OTHER -> NULL

\* Binding of the keyword arguments of a call of insert() to its
\* parameters: a parameter the call does not name takes its default.
BindInsert(a) ==
    [f \in InsertParams |-> IF f \in DOMAIN a THEN a[f] ELSE ParamDefault(f)]

\* An argument passed on without its default.
IntOrWithoutDefault(x, d) == x

\* Python `x or d` on Optional[int] and Optional[str].
IntOr(x, d) == IF x = NullInt \/ x = 0 THEN d ELSE x
StrOr(x, d) == IF x = NULL \/ x = "" THEN d ELSE x

\* A SET clause whose embedded branch repeats the chunked assignments.
SetClauseEmbeddedResetsChunk(a) ==
    IF a.status = "chunked"
    THEN [status |-> a.status,
          chunk_count |-> IntOr(a.chunk_count, 0),
          chunk_profile |-> StrOr(a.chunk_profile, "default")]
    ELSE IF a.status = "embedded"
    THEN [status |-> a.status,
          chunk_count |-> IntOr(a.chunk_count, 0),
          chunk_profile |-> StrOr(a.chunk_profile, "default"),
          vector_count |-> IntOr(a.vector_count, 0),
          embed_model |-> StrOr(a.embed_model, "unknown")]
    ELSE [status |-> a.status]

\* A SET clause whose last branch writes the stage arguments it was given.
SetClauseElseWritesStage(a) ==
    IF a.status = "chunked"
    THEN [status |-> a.status,
          chunk_count |-> IntOr(a.chunk_count, 0),
          chunk_profile |-> StrOr(a.chunk_profile, "default")]
    ELSE IF a.status = "embedded"
    THEN [status |-> a.status,
          vector_count |-> IntOr(a.vector_count, 0),
          embed_model |-> StrOr(a.embed_model, "unknown")]
    ELSE [status |-> a.status,
          chunk_count |-> a.chunk_count, chunk_profile |-> a.chunk_profile,
          vector_count |-> a.vector_count, embed_model |-> a.embed_model]

\* A SET clause that writes the status and leaves the stage columns out.
SetClauseStatusOnly(a) == [status |-> a.status]

\* A SET clause that also advances the version column.
SetClauseWritesVersion(a) ==
    IF a.status = "chunked"
    THEN [status |-> a.status, version |-> 2,
          chunk_count |-> IntOr(a.chunk_count, 0),
          chunk_profile |-> StrOr(a.chunk_profile, "default")]
    ELSE IF a.status = "embedded"
    THEN [status |-> a.status, version |-> 2,
          vector_count |-> IntOr(a.vector_count, 0),
          embed_model |-> StrOr(a.embed_model, "unknown")]
    ELSE [status |-> a.status, version |-> 2]

\* The SET clause update_status builds for its arguments.
SetClause(a) ==
    IF a.status = "chunked"
    THEN [status |-> a.status,
          chunk_count |-> IntOr(a.chunk_count, 0),
          chunk_profile |-> StrOr(a.chunk_profile, "default")]
    ELSE IF a.status = "embedded"
    THEN [status |-> a.status,
          vector_count |-> IntOr(a.vector_count, 0),
          embed_model |-> StrOr(a.embed_model, "unknown")]
    ELSE [status |-> a.status]

\* An UPDATE that also tests the current status: WHERE kf_id = k AND
\* status <> 'embedded'.
UpdateRowsUnlessEmbedded(tbl, k, set) ==
    [i \in DOMAIN tbl |->
        IF i = k /\ tbl[i].status # "embedded"
        THEN [col \in DOMAIN tbl[i] |->
                 IF col \in DOMAIN set THEN set[col] ELSE tbl[i][col]]
        ELSE tbl[i]]

\* An UPDATE that creates the row when no row has the id (an upsert).
UpdateRowsOrCreate(tbl, k, set) ==
    [i \in DOMAIN tbl \cup {k} |->
        IF i # k THEN tbl[i]
        ELSE IF k \notin DOMAIN tbl THEN [kf_id |-> k] @@ set
        ELSE [col \in DOMAIN tbl[i] |->
                 IF col \in DOMAIN set THEN set[col] ELSE tbl[i][col]]]

\* An UPDATE that adds the counts it is given to the stored ones: SET
\* chunk_count = COALESCE(chunk_count, 0) + %s, and so for vector_count.
UpdateRowsAddsCounts(tbl, k, set) ==
    [i \in DOMAIN tbl |->
        IF i = k
        THEN [col \in DOMAIN tbl[i] |->
                 IF col \notin DOMAIN set THEN tbl[i][col]
                 ELSE IF col \in {"chunk_count", "vector_count"}
                 THEN (IF tbl[i][col] = NullInt THEN 0 ELSE tbl[i][col])
                      + set[col]
                 ELSE set[col]]
        ELSE tbl[i]]

\* UPDATE ... SET set WHERE kf_id = k on a table.
UpdateRows(tbl, k, set) ==
    [i \in DOMAIN tbl |->
        IF i = k
        THEN [col \in DOMAIN tbl[i] |->
                 IF col \in DOMAIN set THEN set[col] ELSE tbl[i][col]]
        ELSE tbl[i]]

\* INSERT of one row.
InsertRows(tbl, row) ==
    [i \in DOMAIN tbl \cup {row.kf_id} |->
        IF i = row.kf_id THEN row ELSE tbl[i]]

\* What COMMIT publishes for a pending transaction.
ApplyTxn(tbl, txn) ==
    CASE txn.kind = "insert" -> InsertRows(tbl, txn.row)
      [] txn.kind = "update" -> UpdateRows(tbl, txn.kf_id, txn.set)
      [] OTHER -> tbl

\* A lookup that finds nothing.
SelectByIdFindsNothing(tbl, k) == [kind |-> "notfound"]

\* SELECT ... WHERE kf_id = k; fetchone().
SelectById(tbl, k) ==
    IF k \in DOMAIN tbl
    THEN [kind |-> "row", row |-> tbl[k]]
    ELSE [kind |-> "notfound"]

\* SELECT ... WHERE kb_id = kb; fetchall(), as the set of rows returned.
SelectByKbId(tbl, kb) ==
    [kind |-> "rows",
     rows |-> {[kf_id |-> tbl[i].kf_id, kb_id |-> tbl[i].kb_id,
                file_name |-> tbl[i].file_name, status |-> tbl[i].status,
                chunk_count |-> tbl[i].chunk_count,
                vector_count |-> tbl[i].vector_count] :
               i \in {j \in DOMAIN tbl : tbl[j].kb_id = kb}}]

\* ------------------------------------------------ repository: call frames
\* pc names the next statement of the call: the handle operations of
\* insert/update_status/get_by_id/get_by_kb_id in program order.
IdleCall ==
    [op |-> "none", pc |-> "idle", args |-> NoArgs, kf_id |-> NoId,
     conn |-> "none", cursor |-> "none", txn |-> NoTxn, exc |-> NoExc,
     result |-> NoResult, committed |-> FALSE]

NewCall(op, args, kf_id) ==
    [IdleCall EXCEPT !.op = op, !.pc = "connect", !.args = args,
                     !.kf_id = kf_id]

Ended(c) == c.pc \in {"idle", "returned", "raised"}
IsMutation(c) == c.op \in {"insert", "update_status"}

\* uuid.uuid4(): an id no row and no insert in progress holds.
FreshIds ==
    KfIds \ (DOMAIN rows \cup
             {call[v].kf_id : v \in {u \in Workers : ~Ended(call[u])}})

\* An id taken from the table: the smallest one no committed row holds.
NextIdFromTable ==
    CHOOSE k \in KfIds \ DOMAIN rows : \A j \in KfIds \ DOMAIN rows : k <= j

Uuid4 == CHOOSE k \in FreshIds : \A j \in FreshIds : k <= j

\* conn = get_connection()
GetConnection(w, outcomes) ==
    /\ call[w].pc = "connect"
    /\ \E ok \in outcomes :
        call' = [call EXCEPT ![w] =
            IF ok
            THEN [call[w] EXCEPT !.conn = "open", !.pc = "cursor"]
            ELSE [call[w] EXCEPT !.exc = DbError(call[w], "connect"),
                                 !.pc = "raised"]]
    /\ UNCHANGED <<rows, svc, gen, found, job, nops>>

\* cursor = conn.cursor(): before the try block; a failure here skips the
\* finally block.
CreateCursor(w, outcomes) ==
    /\ call[w].pc = "cursor"
    /\ \E ok \in outcomes :
        call' = [call EXCEPT ![w] =
            IF ok
            THEN [call[w] EXCEPT !.cursor = "open", !.pc = "execute"]
            ELSE [call[w] EXCEPT !.exc = DbError(call[w], "cursor"),
                                 !.pc = "raised"]]
    /\ UNCHANGED <<rows, svc, gen, found, job, nops>>

\* The statement each operation executes, as the transaction's pending
\* write (insert, update_status) or the fetched result (the queries).
Statement(c, tbl) ==
    CASE c.op = "insert" ->
            [c EXCEPT !.txn = [kind |-> "insert",
                               row |-> InsertRow(c.kf_id, BindInsert(c.args),
                                                Now(c.kf_id))],
                      !.pc = "commit"]
      [] c.op = "update_status" ->
            [c EXCEPT !.txn = [kind |-> "update", kf_id |-> c.args.kf_id,
                               set |-> SetClause(c.args)],
                      !.pc = "commit"]
      [] c.op = "get_by_id" ->
            [c EXCEPT !.result = SelectById(tbl, c.args.kf_id),
                      !.pc = "close_cursor"]
      [] OTHER ->
            [c EXCEPT !.result = SelectByKbId(tbl, c.args.kb_id),
                      !.pc = "close_cursor"]

\* cursor.execute(sql, ...): inside try.  On failure the mutations go to
\* `except: conn.rollback()`, the queries to `except: raise`.
Execute(w, outcomes) ==
    /\ call[w].pc = "execute"
    /\ \E ok \in outcomes :
        call' = [call EXCEPT ![w] =
            IF ok
            THEN Statement(call[w], rows)
            ELSE [call[w] EXCEPT
                    !.exc = DbError(call[w], "execute"),
                    !.pc = IF IsMutation(call[w]) THEN "rollback"
                                                  ELSE "close_cursor"]]
    /\ UNCHANGED <<rows, svc, gen, found, job, nops>>

\* conn.commit(); then `return kf_id` (insert) with the finally block
\* still to run.
Commit(w, outcomes) ==
    /\ call[w].pc = "commit"
    /\ \E ok \in outcomes :
        IF ok
        THEN /\ rows' = ApplyTxn(rows, call[w].txn)
             /\ call' = [call EXCEPT ![w] =
                   [call[w] EXCEPT
                      !.txn = NoTxn, !.committed = TRUE,
                      !.result = IF call[w].op = "insert"
                                 THEN [kind |-> "id", id |-> call[w].kf_id]
                                 ELSE NoResult,
                      !.pc = "close_cursor"]]
        ELSE /\ rows' = rows
             /\ call' = [call EXCEPT ![w] =
                   [call[w] EXCEPT !.exc = DbError(call[w], "commit"),
                                   !.pc = "rollback"]]
    /\ UNCHANGED <<svc, gen, found, job, nops>>

\* except Exception: conn.rollback(); raise.  A failing rollback replaces
\* the exception in flight and leaves the transaction pending on the handle.
Rollback(w, outcomes) ==
    /\ call[w].pc = "rollback"
    /\ \E ok \in outcomes :
        call' = [call EXCEPT ![w] =
            IF ok
            THEN [call[w] EXCEPT !.txn = NoTxn, !.pc = "close_cursor"]
            ELSE [call[w] EXCEPT !.exc = DbError(call[w], "rollback"),
                                 !.pc = "close_cursor"]]
    /\ UNCHANGED <<rows, svc, gen, found, job, nops>>

\* finally: cursor.close().  A failure here skips conn.close().
CloseCursor(w, outcomes) ==
    /\ call[w].pc = "close_cursor"
    /\ \E ok \in outcomes :
        call' = [call EXCEPT ![w] =
            IF ok
            THEN [call[w] EXCEPT !.cursor = "closed", !.pc = "close_conn"]
            ELSE [call[w] EXCEPT !.exc = DbError(call[w], "close_cursor"),
                                 !.pc = "raised"]]
    /\ UNCHANGED <<rows, svc, gen, found, job, nops>>

\* finally: conn.close(): the store discards a transaction still pending.
\* The call then returns, or re-raises the exception in flight.
CloseConn(w, outcomes) ==
    /\ call[w].pc = "close_conn"
    /\ \E ok \in outcomes :
        call' = [call EXCEPT ![w] =
            IF ok
            THEN [call[w] EXCEPT
                    !.conn = "closed", !.txn = NoTxn,
                    !.pc = IF call[w].exc = NoExc THEN "returned"
                                                  ELSE "raised"]
            ELSE [call[w] EXCEPT !.exc = DbError(call[w], "close_conn"),
                                 !.pc = "raised"]]
    /\ UNCHANGED <<rows, svc, gen, found, job, nops>>

\* The store may fail at every handle operation.
RepoStep(w) ==
    \/ GetConnection(w, BOOLEAN)
    \/ CreateCursor(w, BOOLEAN)
    \/ Execute(w, BOOLEAN)
    \/ Commit(w, BOOLEAN)
    \/ Rollback(w, BOOLEAN)
    \/ CloseCursor(w, BOOLEAN)
    \/ CloseConn(w, BOOLEAN)

\* The store may fail while it commits or rolls back.
RepoStepConc(w) ==
    \/ GetConnection(w, {TRUE})
    \/ CreateCursor(w, {TRUE})
    \/ Execute(w, {TRUE})
    \/ Commit(w, BOOLEAN)
    \/ Rollback(w, BOOLEAN)
    \/ CloseCursor(w, {TRUE})
    \/ CloseConn(w, {TRUE})

\* ------------------------------------------------------------ index_file
IdleSvc ==
    [pc |-> "idle", path |-> NULL, kf_id |-> NoId, checksum |-> NULL,
     ndocs |-> 0, exc |-> NoExc, recovery |-> "none",
     n_checksum |-> 0, n_load |-> 0, n_insert |-> 0, n_update |-> 0]

PyError(type, at) == [type |-> type, op |-> "index_file", at |-> at, status |-> NULL]

\* Stage 0 without the is_file() test.
ValidateFileExistsOnly(p) ==
    IF PathKind(p) = "missing" THEN PyError("FileNotFoundError", "validate")
    ELSE NoExc

\* Stage 0: `if not file_path.exists()` / `if not file_path.is_file()`.
ValidateFile(p) ==
    IF PathKind(p) = "missing" THEN PyError("FileNotFoundError", "validate")
    ELSE IF PathKind(p) # "file" THEN PyError("ValueError", "validate")
    ELSE NoExc

\* Insert arguments that leave the checksum out.
IndexInsertArgsNoChecksum(kb, p, checksum) ==
    [kb_id |-> kb, source_type |-> "path", source_uri |-> p,
     file_name |-> p, file_ext |-> Suffix(p), file_size |-> FileSize(p),
     file_mtime |-> FileMtime(p), checksum |-> NULL,
     parser_profile |-> get_parser_name(p),
     version |-> 1, custom_docs |-> 0]

\* The arguments index_file passes to file_repo.insert.
IndexInsertArgs(kb, p, checksum) ==
    [kb_id |-> kb, source_type |-> "path", source_uri |-> p,
     file_name |-> p, file_ext |-> Suffix(p), file_size |-> FileSize(p),
     file_mtime |-> FileMtime(p), checksum |-> checksum,
     parser_profile |-> get_parser_name(p),
     version |-> 1, custom_docs |-> 0]

\* update_status(kf_id, status) with the stage arguments left at None.
StatusOnlyArgs(k, status) ==
    [kf_id |-> k, status |-> status, chunk_count |-> NullInt,
     chunk_profile |-> NULL, vector_count |-> NullInt, embed_model |-> NULL]

\* The knowledge base the IndexingService was constructed for.
ServiceKb == "kb-001"

\* The caller thread is between calls.
Free(w) == Ended(call[w]) /\ svc[w].pc \in {"idle", "returned", "raised"}

\* Rows still available to the index_file calls that will insert.
CanInsert(w) ==
    Cardinality(FreshIds) >
    Cardinality({v \in Workers \ {w} :
                    svc[v].pc \in {"checksum", "load", "stat"}})

\* index_file(file_path): kf_id = None, then stage 0.
index_file(w, p) ==
    /\ Free(w)
    /\ nops < MaxOps
    /\ nops' = nops + 1
    /\ CanInsert(w)
    /\ svc' = [svc EXCEPT ![w] =
          [IdleSvc EXCEPT !.path = p, !.exc = ValidateFile(p),
                          !.pc = IF ValidateFile(p) = NoExc THEN "checksum"
                                                            ELSE "except"]]
    /\ call' = [call EXCEPT ![w] = IdleCall]
    /\ UNCHANGED <<rows, gen, found, job>>

\* Stage 1: checksum = self._calculate_checksum(file_path); open() or
\* read() may fail, and does on a path that is no readable file.
Checksum(w) ==
    /\ svc[w].pc = "checksum"
    /\ \E ok \in BOOLEAN :
        /\ ok => PathKind(svc[w].path) = "file"
        /\ svc' = [svc EXCEPT ![w] =
              IF ok
              THEN [svc[w] EXCEPT !.checksum = Md5(svc[w].path),
                                  !.n_checksum = @ + 1, !.pc = "load"]
              ELSE [svc[w] EXCEPT !.exc = PyError("OSError", "checksum"),
                                  !.n_checksum = @ + 1, !.pc = "except"]]
    /\ UNCHANGED <<rows, call, gen, found, job, nops>>

\* Stage 2 without the `if not raw_docs` test.
LoadWithoutEmptyTest(w) ==
    /\ svc[w].pc = "load"
    /\ LET g == Drain(NewGen(<<svc[w].path>>))
       IN  svc' = [svc EXCEPT ![w] =
              [svc[w] EXCEPT !.ndocs = Len(g.out),
                             !.n_load = @ + 1, !.pc = "stat"]]
    /\ UNCHANGED <<rows, call, gen, found, job, nops>>

\* Stage 2 with one more attempt after a load that came back empty.
LoadRetryOnce(w) ==
    /\ svc[w].pc = "load"
    /\ LET g == Drain(NewGen(<<svc[w].path>>))
       IN  svc' = [svc EXCEPT ![w] =
              IF Len(g.out) = 0 /\ svc[w].n_load = 0
              THEN [svc[w] EXCEPT !.n_load = @ + 1]
              ELSE IF Len(g.out) = 0
              THEN [svc[w] EXCEPT !.exc = PyError("ValueError", "load"),
                                  !.n_load = @ + 1, !.pc = "except"]
              ELSE [svc[w] EXCEPT !.ndocs = Len(g.out),
                                  !.n_load = @ + 1, !.pc = "stat"]]
    /\ UNCHANGED <<rows, call, gen, found, job, nops>>

\* Stage 2: raw_docs = list(self.loader.load([file_path]));
\* `if not raw_docs: raise ValueError`.
Load(w) ==
    /\ svc[w].pc = "load"
    /\ LET g == Drain(NewGen(<<svc[w].path>>))
       IN  svc' = [svc EXCEPT ![w] =
              IF g.st = "raised"
              THEN [svc[w] EXCEPT !.exc = PyError("LoadError", "load"),
                                  !.n_load = @ + 1, !.pc = "except"]
              ELSE IF Len(g.out) = 0
              THEN [svc[w] EXCEPT !.exc = PyError("ValueError", "load"),
                                  !.n_load = @ + 1, !.pc = "except"]
              ELSE [svc[w] EXCEPT !.ndocs = Len(g.out),
                                  !.n_load = @ + 1, !.pc = "stat"]]
    /\ UNCHANGED <<rows, call, gen, found, job, nops>>

\* Stage 3: file_metadata = self._get_file_metadata(file_path) (stat() may
\* fail), then kf_id = self.file_repo.insert(...).
CallInsert(w) ==
    /\ svc[w].pc = "stat"
    /\ \E ok \in BOOLEAN :
        IF ok
        THEN /\ svc' = [svc EXCEPT ![w] =
                   [svc[w] EXCEPT !.n_insert = @ + 1, !.pc = "inserting"]]
             /\ call' = [call EXCEPT ![w] =
                   NewCall("insert",
                           IndexInsertArgs(ServiceKb, svc[w].path, svc[w].checksum),
                           Uuid4)]
        ELSE /\ svc' = [svc EXCEPT ![w] =
                   [svc[w] EXCEPT !.exc = PyError("OSError", "stat"),
                                  !.pc = "except"]]
             /\ call' = call
    /\ UNCHANGED <<rows, gen, found, job, nops>>

\* insert returned kf_id: stage 4, self.file_repo.update_status(kf_id,
\* 'parsed').  insert raised: to the except block with kf_id still None.
InsertDone(w) ==
    /\ svc[w].pc = "inserting"
    /\ call[w].pc \in {"returned", "raised"}
    /\ IF call[w].pc = "returned"
       THEN /\ svc' = [svc EXCEPT ![w] =
                  [svc[w] EXCEPT !.kf_id = call[w].result.id,
                                 !.n_update = @ + 1, !.pc = "updating"]]
            /\ call' = [call EXCEPT ![w] =
                  NewCall("update_status",
                          StatusOnlyArgs(call[w].result.id, "parsed"), NoId)]
       ELSE /\ svc' = [svc EXCEPT ![w] =
                  [svc[w] EXCEPT !.exc = call[w].exc, !.pc = "except"]]
            /\ call' = call
    /\ UNCHANGED <<rows, gen, found, job, nops>>

\* update_status(kf_id, 'parsed') returned: `return kf_id`.  It raised: to
\* the except block.
UpdateDone(w) ==
    /\ svc[w].pc = "updating"
    /\ call[w].pc \in {"returned", "raised"}
    /\ svc' = [svc EXCEPT ![w] =
          IF call[w].pc = "returned"
          THEN [svc[w] EXCEPT !.pc = "returned"]
          ELSE [svc[w] EXCEPT !.exc = call[w].exc, !.pc = "except"]]
    /\ UNCHANGED <<rows, call, gen, found, job, nops>>

\* An except block that re-raises without marking the record.
ExceptWithoutMark(w) ==
    /\ svc[w].pc = "except"
    /\ svc' = [svc EXCEPT ![w] = [svc[w] EXCEPT !.pc = "raised"]]
    /\ UNCHANGED <<rows, call, gen, found, job, nops>>

\* An except block that marks the record without testing kf_id.
ExceptAlwaysMarks(w) ==
    /\ svc[w].pc = "except"
    /\ svc' = [svc EXCEPT ![w] =
          [svc[w] EXCEPT !.n_update = @ + 1, !.pc = "recovering"]]
    /\ call' = [call EXCEPT ![w] =
          NewCall("update_status", StatusOnlyArgs(svc[w].kf_id, "failed"), NoId)]
    /\ UNCHANGED <<rows, gen, found, job, nops>>

\* except Exception as e: `if kf_id:` try update_status(kf_id, 'failed');
\* then `raise`.
Except(w) ==
    /\ svc[w].pc = "except"
    /\ IF svc[w].kf_id # NoId
       THEN /\ svc' = [svc EXCEPT ![w] =
                  [svc[w] EXCEPT !.n_update = @ + 1, !.pc = "recovering"]]
            /\ call' = [call EXCEPT ![w] =
                  NewCall("update_status",
                          StatusOnlyArgs(svc[w].kf_id, "failed"), NoId)]
       ELSE /\ svc' = [svc EXCEPT ![w] = [svc[w] EXCEPT !.pc = "raised"]]
            /\ call' = call
    /\ UNCHANGED <<rows, gen, found, job, nops>>

\* A recovery whose own failure replaces the exception in flight.
RecoverDoneMasking(w) ==
    /\ svc[w].pc = "recovering"
    /\ call[w].pc \in {"returned", "raised"}
    /\ svc' = [svc EXCEPT ![w] =
          [svc[w] EXCEPT
             !.recovery = IF call[w].pc = "returned" THEN "ok" ELSE "failed",
             !.exc = IF call[w].pc = "returned" THEN @ ELSE call[w].exc,
             !.pc = "raised"]]
    /\ UNCHANGED <<rows, call, gen, found, job, nops>>

\* The recovery update returned, or raised and was logged
\* (`except Exception as update_error`); `raise` re-raises the original.
RecoverDone(w) ==
    /\ svc[w].pc = "recovering"
    /\ call[w].pc \in {"returned", "raised"}
    /\ svc' = [svc EXCEPT ![w] =
          [svc[w] EXCEPT
             !.recovery = IF call[w].pc = "returned" THEN "ok" ELSE "failed",
             !.pc = "raised"]]
    /\ UNCHANGED <<rows, call, gen, found, job, nops>>

IndexStep(w) ==
    \/ Checksum(w)
    \/ Load(w)
    \/ CallInsert(w)
    \/ InsertDone(w)
    \/ UpdateDone(w)
    \/ Except(w)
    \/ RecoverDone(w)

\* --------------------------------------------- repository: direct callers
\* The keyword arguments of the insert calls: scripts/
\* test_knowledge_file_repo.py Test 1, the docstring's simplest call, which
\* names neither version nor custom_docs, and its new-version call.
InsertInputs ==
    {[kb_id |-> "kb-001", source_type |-> "path",
      source_uri |-> "data/raw/report.pdf", file_name |-> "report.pdf",
      file_ext |-> ".pdf", file_size |-> 12345, checksum |-> NULL,
      parser_profile |-> "pdf_default", version |-> 1, custom_docs |-> 0],
     [kb_id |-> "kb-001", source_type |-> "path",
      source_uri |-> "data/doc.pdf", file_name |-> "doc.pdf",
      file_ext |-> ".pdf", file_size |-> 12345],
     [kb_id |-> "kb-002", source_type |-> NULL,
      source_uri |-> "data/doc_v2.pdf", file_name |-> "doc.pdf",
      file_ext |-> ".pdf", file_size |-> 23456, checksum |-> "new_checksum",
      parser_profile |-> NULL, version |-> 2, custom_docs |-> 1]}

\* Stage arguments of update_status: all left None, all given, all falsy.
StageInputs ==
    {[chunk_count |-> NullInt, chunk_profile |-> NULL,
      vector_count |-> NullInt, embed_model |-> NULL],
     [chunk_count |-> 10, chunk_profile |-> "recursive_500_50",
      vector_count |-> 10, embed_model |-> "text-embedding-3-small"],
     [chunk_count |-> 0, chunk_profile |-> "",
      vector_count |-> 0, embed_model |-> ""]}

\* The arguments of the update_status calls: every status of the lifecycle
\* with every choice of stage arguments, and `status: str` being unchecked,
\* a string that is no status ('completed', from get_by_id's docstring).
UpdateInputs ==
    {[kf_id |-> k, status |-> st, chunk_count |-> g.chunk_count,
      chunk_profile |-> g.chunk_profile, vector_count |-> g.vector_count,
      embed_model |-> g.embed_model] :
        k \in KfIds, st \in Statuses, g \in StageInputs}
    \cup {StatusOnlyArgs(k, "completed") : k \in KfIds}

KbIds == {"kb-001", "kb-002"}

\* repo.insert(...): kf_id = str(uuid.uuid4()), then the handle operations.
insert(w, a) ==
    /\ Free(w)
    /\ nops < MaxOps
    /\ nops' = nops + 1
    /\ CanInsert(w)
    /\ call' = [call EXCEPT ![w] = NewCall("insert", a, Uuid4)]
    /\ svc' = [svc EXCEPT ![w] = IdleSvc]
    /\ UNCHANGED <<rows, gen, found, job>>

\* repo.update_status(kf_id, status, ...)
update_status(w, a) ==
    /\ Free(w)
    /\ nops < MaxOps
    /\ nops' = nops + 1
    /\ call' = [call EXCEPT ![w] = NewCall("update_status", a, NoId)]
    /\ svc' = [svc EXCEPT ![w] = IdleSvc]
    /\ UNCHANGED <<rows, gen, found, job>>

\* repo.get_by_id(kf_id)
get_by_id(w, k) ==
    /\ Free(w)
    /\ nops < MaxOps
    /\ nops' = nops + 1
    /\ call' = [call EXCEPT ![w] = NewCall("get_by_id", [kf_id |-> k], NoId)]
    /\ svc' = [svc EXCEPT ![w] = IdleSvc]
    /\ UNCHANGED <<rows, gen, found, job>>

\* repo.get_by_kb_id(kb_id)
get_by_kb_id(w, kb) ==
    /\ Free(w)
    /\ nops < MaxOps
    /\ nops' = nops + 1
    /\ call' = [call EXCEPT ![w] = NewCall("get_by_kb_id", [kb_id |-> kb], NoId)]
    /\ svc' = [svc EXCEPT ![w] = IdleSvc]
    /\ UNCHANGED <<rows, gen, found, job>>

\* ------------------------------------------------------- loader: consumer
SeqsUpTo(S, n) == UNION {[1..k -> S] : k \in 0..n}

\* discover_files ------------------------------------------------------------
\* Path.__lt__: the paths of the file system in ascending order, compared
\* part by part, upper case before lower case.
PathOrder ==
    <<"blank.md", "data", "data/NOTES.TXT", "data/doc.txt", "data/sub",
      "data/sub/deep.md", "data/x.xyz", "empty.docx", "gone.txt", "scan.pdf">>

PathRank(p) == CHOOSE i \in 1..Len(PathOrder) : PathOrder[i] = p

\* sorted(set(files))
RECURSIVE SortedPaths(_)
SortedPaths(S) ==
    IF S = {} THEN << >>
    ELSE LET m == CHOOSE p \in S : \A q \in S : PathRank(p) <= PathRank(q)
         IN  <<m>> \o SortedPaths(S \ {m})

\* Everything below a directory, at any depth.
RECURSIVE Descendants(_)
Descendants(d) ==
    Children(d) \cup UNION {Descendants(c) : c \in Children(d)}

\* root.rglob("*") enumerates the entries below root in an order the
\* operating system chooses.
RECURSIVE Orders(_)
Orders(S) ==
    IF S = {} THEN {<< >>}
    ELSE UNION {{<<p>> \o t : t \in Orders(S \ {p})} : p \in S}

Walks(root) == Orders(Descendants(root))

\* exts: allowed_exts() lower-cased; every declared extension starts with '.'
NormalizedExts == {Lower(e) : e \in AllowedExts}

\* discover_files that returns the files in the order rglob gave them.
discover_files_unsorted(root, walk) ==
    IF PathKind(root) = "missing" THEN << >>
    ELSE IF PathKind(root) = "file"
    THEN IF Lower(Suffix(root)) \in NormalizedExts THEN <<root>> ELSE << >>
    ELSE LET Keep(p) == PathKind(p) = "file" /\ Lower(Suffix(p)) \in NormalizedExts
         IN  SelectSeq(walk, Keep)

\* discover_files that compares the suffix as written on disk.
discover_files_raw_suffix(root, walk) ==
    IF PathKind(root) = "missing" THEN << >>
    ELSE IF PathKind(root) = "file"
    THEN IF Suffix(root) \in NormalizedExts THEN <<root>> ELSE << >>
    ELSE LET Keep(p) == PathKind(p) = "file" /\ Suffix(p) \in NormalizedExts
             files == SelectSeq(walk, Keep)
         IN  SortedPaths({files[i] : i \in 1..Len(files)})

\* discover_files(root), rglob having enumerated the tree in the order walk.
discover_files(root, walk) ==
    IF PathKind(root) = "missing" THEN << >>
    ELSE IF PathKind(root) = "file"
    THEN IF Lower(Suffix(root)) \in NormalizedExts THEN <<root>> ELSE << >>
    ELSE LET Keep(p) == PathKind(p) = "file" /\ Lower(Suffix(p)) \in NormalizedExts
             files == SelectSeq(walk, Keep)
         IN  SortedPaths({files[i] : i \in 1..Len(files)})

\* A load() that reads every file when called and returns a list.
loadEager(paths) ==
    /\ gen' = [NewGen(paths) EXCEPT !.invoked = Drain(NewGen(paths)).invoked]
    /\ UNCHANGED <<rows, call, svc, found, job, nops>>

\* docs = loader.load(paths): the generator object is created; none of the
\* body runs yet.
load(paths) ==
    /\ gen' = NewGen(paths)
    /\ UNCHANGED <<rows, call, svc, found, job, nops>>

\* The positions of run() inside save()'s loop.
SavePcs == {"saving", "dump", "replace", "cleanup"}

\* next(docs) by the consumer; inside save() the loop of save() is the
\* consumer.
NextDoc ==
    /\ job.pc \notin SavePcs \cup {"raised"}
    /\ gen.st \in {"created", "suspended"}
    /\ gen' = Resume(gen)
    /\ UNCHANGED <<rows, call, svc, found, job, nops>>

\* A caller runs discover_files on a root.
Discover(root) ==
    /\ \E walk \in Walks(root) :
          found' = [root |-> root, files |-> discover_files(root, walk),
                    again |-> found.root = root,
                    before |-> IF found.root = root THEN found.files ELSE << >>]
    /\ UNCHANGED <<rows, call, svc, gen, job, nops>>

\* run() and save() ---------------------------------------------------------
\* Path(src).stem: the last component without its suffix.
Stem(p) ==
    CASE p = "data/doc.txt" -> "doc"
      [] p = "data/NOTES.TXT" -> "NOTES"
      [] p = "data/x.xyz" -> "x"
      [] p = "data/sub" -> "sub"
      [] p = "data/sub/deep.md" -> "deep"
      [] p = "scan.pdf" -> "scan"
      [] p = "blank.md" -> "blank"
      [] p = "empty.docx" -> "empty"
      [] p = "gone.txt" -> "gone"
      [] OTHER -> p

\* doc.metadata.get(key, default)
MetaGet(md, key, default) == IF key \in DOMAIN md THEN md[key] ELSE default

\* to_serializable(doc): {"text": doc.text, "metadata": dict(doc.metadata)}
to_serializable(doc) == [text |-> doc.text, metadata |-> doc.metadata]

\* default_out_path(doc, out_dir): the stem of metadata['source_path'] when
\* that is a string, else str(metadata.get('doc_id', 'rawdoc')).
default_out_path(doc, out_dir) ==
    LET src == MetaGet(doc.metadata, "source_path", NULL)
        stem == IF src # NULL THEN Stem(src) ELSE ""
        name == IF stem = "" THEN MetaGet(doc.metadata, "doc_id", "rawdoc")
                             ELSE stem
    IN  out_dir \o "/" \o name \o ".docjson"

\* A filter that keeps every candidate that exists.
valid_paths_exists_only(candidates) ==
    LET Keep(p) == PathKind(p) # "missing"
    IN  SelectSeq(candidates, Keep)

\* Step 2 of run(): the candidates that exist, are regular files and have a
\* lower-cased suffix in exts.
valid_paths(candidates) ==
    LET Keep(p) == PathKind(p) = "file" /\ Lower(Suffix(p)) \in NormalizedExts
    IN  SelectSeq(candidates, Keep)

\* Step 2 of run(): skipped, the other candidates with the reason.
skipped(candidates) ==
    LET reason(p) == IF PathKind(p) # "file" THEN "not found" ELSE "unsupported ext"
        Dropped(p) == ~(PathKind(p) = "file" /\ Lower(Suffix(p)) \in NormalizedExts)
        dropped == SelectSeq(candidates, Dropped)
    IN  [i \in 1..Len(dropped) |-> <<dropped[i], reason(dropped[i])>>]

\* No run() call has been made.  files is the content of the output
\* directory, written the list save() returns, ndocs the RawDocs save() has
\* taken from load(), nfail those whose write raised.
IdleJob ==
    [pc |-> "idle", single |-> FALSE, input |-> << >>, out_dir |-> NULL,
     i |-> 1, candidates |-> << >>, valid_paths |-> << >>, skipped |-> << >>,
     files |-> {}, written |-> << >>, ndocs |-> 0, nfail |-> 0,
     doc |-> NULL, out_path |-> NULL, tmp_file |-> NULL, nleft |-> 0]

\* loader.run(in_paths_or_dir, out_dir): a single path is handled as the
\* list holding it.
run(input, out_dir) ==
    /\ job.pc = "idle"
    /\ job' = [IdleJob EXCEPT
                 !.pc = IF input.paths = << >> THEN "filter" ELSE "expand",
                 !.single = input.single, !.input = input.paths,
                 !.out_dir = out_dir]
    /\ UNCHANGED <<rows, call, svc, gen, found, nops>>

\* Step 1 of run(), one input: a directory is replaced by
\* discover_files(p), anything else is appended as it is.
RunExpand ==
    /\ job.pc = "expand"
    /\ LET p == job.input[job.i]
       IN  \E walk \in Walks(p) :
              job' = [job EXCEPT
                        !.candidates =
                            IF PathKind(p) = "dir"
                            THEN @ \o discover_files(p, walk)
                            ELSE Append(@, p),
                        !.i = @ + 1,
                        !.pc = IF job.i = Len(job.input) THEN "filter"
                                                         ELSE "expand"]
    /\ UNCHANGED <<rows, call, svc, gen, found, nops>>

\* Steps 2 to 4 of run(): filter, docs = self.load(valid_paths), and
\* `return docs` when out_dir is None; else save() begins with
\* out.mkdir(parents=True, exist_ok=True), which may raise.
RunLoad ==
    /\ job.pc = "filter"
    /\ gen' = NewGen(valid_paths(job.candidates))
    /\ \E ok \in (IF job.out_dir = NULL THEN {TRUE} ELSE BOOLEAN) :
          job' = [job EXCEPT
                    !.valid_paths = valid_paths(job.candidates),
                    !.skipped = skipped(job.candidates),
                    !.pc = IF job.out_dir = NULL THEN "returned"
                           ELSE IF ok THEN "saving" ELSE "raised"]
    /\ UNCHANGED <<rows, call, svc, found, nops>>

\* The content of a file that holds part of a document's JSON text, or
\* nothing yet.
Incomplete == [truncated |-> TRUE]

\* The files of the output directory, as a set of [path, content]:
\* writing a file, removing it, and os.replace(src, dst).
WriteFile(files, p, content) ==
    {f \in files : f.path # p} \cup {[path |-> p, content |-> content]}

Unlink(files, p) == {f \in files : f.path # p}

Replace(files, src, dst) ==
    LET content == (CHOOSE f \in files : f.path = src).content
    IN  WriteFile(Unlink(files, src), dst, content)

\* A writer that opens out_path itself.
mkstemp_in_place(files, out_path) == out_path

\* tempfile.mkstemp(dir=str(out_path.parent)): a new file in the directory
\* of out_path, under a name that no file of the directory has.
mkstemp(files, out_path) ==
    LET name(n) == "out/tmp" \o ToString(n)
        n == CHOOSE n \in 1..(Cardinality(files) + 1) :
                /\ \A f \in files : f.path # name(n)
                /\ \A m \in 1..(n - 1) : \E f \in files : f.path = name(m)
    IN  name(n)

\* The outcomes of a file operation of save(): it may raise while fewer
\* than MaxSaveFaults writes have failed.
SaveOutcomes == IF job.nfail < MaxSaveFaults THEN BOOLEAN ELSE {TRUE}

\* save(), head of `for doc in docs`: the next RawDoc is taken from the
\* generator, out_path is computed and the temporary file is created; when
\* mkstemp raises there is no file to remove and the loop goes on.  At the
\* end of docs: `return written`.
SaveDoc ==
    /\ job.pc = "saving"
    /\ gen' = Resume(gen)
    /\ IF Resume(gen).last = 1
       THEN LET docs == Resume(gen).out
                doc == docs[Len(docs)]
                out_path == default_out_path(doc, job.out_dir)
                tmp_file == mkstemp(job.files, out_path)
            IN  \E ok \in SaveOutcomes :
                   job' = IF ok
                          THEN [job EXCEPT
                                  !.doc = doc, !.out_path = out_path,
                                  !.tmp_file = tmp_file,
                                  !.files = WriteFile(@, tmp_file, Incomplete),
                                  !.pc = "dump"]
                          ELSE [job EXCEPT !.ndocs = @ + 1, !.nfail = @ + 1]
       ELSE job' = [job EXCEPT
                      !.pc = IF Resume(gen).st = "raised" THEN "raised"
                                                          ELSE "returned"]
    /\ UNCHANGED <<rows, call, svc, found, nops>>

\* json.dump(cls.to_serializable(doc), f) into the temporary file, and the
\* close at the end of `with`: when one of them raises the file keeps what
\* was written so far.
SaveDump ==
    /\ job.pc = "dump"
    /\ \E ok \in SaveOutcomes :
          job' = IF ok
                 THEN [job EXCEPT
                         !.files = WriteFile(@, job.tmp_file,
                                             to_serializable(job.doc)),
                         !.pc = "replace"]
                 ELSE [job EXCEPT !.pc = "cleanup"]
    /\ UNCHANGED <<rows, call, svc, gen, found, nops>>

\* os.replace(tmp_file, str(out_path)); written.append(out_path);
\* tmp_file = None.
SaveReplace ==
    /\ job.pc = "replace"
    /\ \E ok \in SaveOutcomes :
          job' = IF ok
                 THEN [job EXCEPT
                         !.files = Replace(@, job.tmp_file, job.out_path),
                         !.written = Append(@, job.out_path),
                         !.ndocs = @ + 1,
                         !.doc = NULL, !.out_path = NULL, !.tmp_file = NULL,
                         !.pc = "saving"]
                 ELSE [job EXCEPT !.pc = "cleanup"]
    /\ UNCHANGED <<rows, call, svc, gen, found, nops>>

\* except Exception: the temporary file, which exists, is unlinked; an
\* unlink that raises is passed over and leaves the file; `continue`.
SaveCleanup ==
    /\ job.pc = "cleanup"
    /\ \E ok \in BOOLEAN :
          job' = [job EXCEPT
                    !.files = IF ok THEN Unlink(@, job.tmp_file) ELSE @,
                    !.nleft = IF ok THEN @ ELSE @ + 1,
                    !.ndocs = @ + 1, !.nfail = @ + 1,
                    !.doc = NULL, !.out_path = NULL, !.tmp_file = NULL,
                    !.pc = "saving"]
    /\ UNCHANGED <<rows, call, svc, gen, found, nops>>

\* --------------------------------------------------------- specifications
Init ==
    /\ rows = << >>
    /\ call = [w \in Workers |-> IdleCall]
    /\ svc = [w \in Workers |-> IdleSvc]
    /\ gen = NewGen(<< >>)
    /\ found = [root |-> NULL, files |-> << >>, again |-> FALSE, before |-> << >>]
    /\ job = IdleJob
    /\ nops = 0

\* The files index_file is called on.
IndexPaths ==
    {"data/doc.txt", "data/NOTES.TXT", "gone.txt", "data/sub", "blank.md",
     "data/x.xyz", "scan.pdf"}

Operation(w) ==
    \/ \E p \in IndexPaths : index_file(w, p)
    \/ \E a \in InsertInputs : insert(w, a)
    \/ \E a \in UpdateInputs : update_status(w, a)
    \/ \E k \in KfIds : get_by_id(w, k)
    \/ \E kb \in KbIds : get_by_kb_id(w, kb)

\* One caller thread.
Next ==
    \/ Operation("w1")
    \/ IndexStep("w1")
    \/ RepoStep("w1")

Spec == Init /\ [][Next]_vars

\* The calls two concurrent caller threads make: the stage updates of the
\* test script, a regression and a failure mark, on every id.
ConcUpdateInputs ==
    {a \in UpdateInputs :
        \/ a.status \in {"chunked", "embedded"} /\ a.chunk_count = 10
        \/ a.status \in {"parsed", "failed"} /\ a.chunk_count = NullInt}

OperationConc(w) ==
    \/ index_file(w, "data/doc.txt")
    \/ \E a \in ConcUpdateInputs : update_status(w, a)
    \/ \E k \in KfIds : get_by_id(w, k)
    \/ get_by_kb_id(w, ServiceKb)

\* Two caller threads, interleaved at every handle operation.
NextConc ==
    \E w \in Workers : OperationConc(w) \/ IndexStep(w) \/ RepoStepConc(w)

SpecConc == Init /\ [][NextConc]_vars

\* The paths load() is called with.
LoadPaths ==
    {"data/doc.txt", "data/NOTES.TXT", "data/x.xyz", "data/sub", "scan.pdf",
     "blank.md", "empty.docx", "gone.txt"}

\* The roots discover_files is called with.
Roots == {"data", "data/sub", "data/doc.txt", "data/NOTES.TXT", "data/x.xyz", "gone.txt"}

\* No generator has been created yet.
NoGen == gen = NewGen(<< >>)

\* The inputs of run(): lists of files, directories and missing paths.
RunPaths ==
    {"data", "data/doc.txt", "data/NOTES.TXT", "data/x.xyz", "gone.txt"}

\* run() is given one path, or a list of paths.
RunInputs ==
    {[single |-> TRUE, paths |-> <<p>>] : p \in RunPaths}
    \cup {[single |-> FALSE, paths |-> q] : q \in SeqsUpTo(RunPaths, MaxInputs)}

\* out_dir: None, or a directory.
OutDirs == {NULL, "out"}

\* No run() call has been made.
NoJob == job.pc = "idle"

\* A caller that discovers, then either loads and consumes the generator,
\* or calls run(), which does the same and saves. Generators share
\* nothing, so one is followed.
NextLoad ==
    \/ NoGen /\ NoJob /\ \E root \in Roots : Discover(root)
    \/ NoGen /\ NoJob /\ \E paths \in SeqsUpTo(LoadPaths, MaxPaths) : load(paths)
    \/ NoGen /\ NoJob /\ \E input \in RunInputs, out_dir \in OutDirs :
                            run(input, out_dir)
    \/ RunExpand
    \/ RunLoad
    \/ SaveDoc
    \/ SaveDump
    \/ SaveReplace
    \/ SaveCleanup
    \/ NextDoc

SpecLoad == Init /\ [][NextLoad]_vars

\* ------------------------------------------------------------- properties
\* The position of a status in pending -> parsed -> chunked -> embedded,
\* with failed after all of them.
StatusRank(st) ==
    CASE st = "pending" -> 0
      [] st = "parsed" -> 1
      [] st = "chunked" -> 2
      [] st = "embedded" -> 3
      [] OTHER -> 4

\* C1: status monotonicity.  In every step, the status of every record
\* either stays, moves to a later stage of pending -> parsed -> chunked ->
\* embedded, or becomes failed; it never leaves failed and never moves back
\* to an earlier stage.
C1_StatusMonotone ==
    [][\A k \in DOMAIN rows :
          (rows[k].status \in Statuses /\ rows'[k].status \in Statuses) =>
              StatusRank(rows'[k].status) >= StatusRank(rows[k].status)]_vars

\* index_file has raised to its caller holding the id of the record it
\* inserted.
RaisedWithRecord(w) == svc[w].pc = "raised" /\ svc[w].kf_id # NoId

\* C2, as stated: whenever index_file has raised after the record was
\* inserted, the record's status is failed.
C2_FailedAfterRaise ==
    \A w \in Workers :
        RaisedWithRecord(w) =>
            SelectById(rows, svc[w].kf_id) # [kind |-> "notfound"]
            /\ SelectById(rows, svc[w].kf_id).row.status = "failed"

\* C2, amended: whenever index_file has raised after the record was
\* inserted, the record is failed if the recovery update_status(kf_id,
\* 'failed') committed; if the store failed that update before its commit,
\* the record keeps the status parsed that insert gave it.
C2_FailedWhenRecoveryCommits ==
    \A w \in Workers :
        RaisedWithRecord(w) =>
            /\ call[w].op = "update_status"
            /\ call[w].args.status = "failed"
            /\ svc[w].kf_id \in DOMAIN rows
            /\ rows[svc[w].kf_id].status =
                  IF call[w].committed THEN "failed" ELSE "parsed"

\* index_file raised because update_status(kf_id, 'parsed') failed, the
\* recovery update committed and the record is failed.
C2_Witness ==
    \E w \in Workers :
        /\ RaisedWithRecord(w)
        /\ svc[w].exc.type = "DbError"
        /\ svc[w].recovery = "ok"
        /\ call[w].committed
        /\ rows[svc[w].kf_id].status = "failed"

\* C3: stage-field isolation.  The step in which update_status(k,
\* 'embedded', vector_count = v, embed_model = m) commits changes, of row
\* k, exactly status, vector_count (v, or 0 when v is None or 0) and
\* embed_model (m, or 'unknown' when m is None or empty): chunk_count and
\* chunk_profile, and every other column, keep their values.
C3_EmbeddedKeepsChunkFields ==
    [][\A w \in Workers :
          (/\ call[w].pc = "commit"
           /\ call'[w].committed
           /\ call[w].op = "update_status"
           /\ call[w].args.status = "embedded"
           /\ call[w].args.kf_id \in DOMAIN rows)
          => LET k == call[w].args.kf_id
                 v == call[w].args.vector_count
                 m == call[w].args.embed_model
             IN  rows'[k] =
                    [rows[k] EXCEPT
                       !.status = "embedded",
                       !.vector_count = IF v \in {NullInt, 0} THEN 0 ELSE v,
                       !.embed_model = IF m \in {NULL, ""} THEN "unknown" ELSE m]]_vars

\* After chunked(10, 'recursive_500_50') and embedded(None, None) a record
\* shows the chunk fields of the first call beside the defaults of the
\* second.
C3_Witness ==
    \E k \in DOMAIN rows :
        /\ rows[k].status = "embedded"
        /\ rows[k].chunk_count = 10
        /\ rows[k].chunk_profile = "recursive_500_50"
        /\ rows[k].vector_count = 0
        /\ rows[k].embed_model = "unknown"

\* C4: while index_file runs on a path that is missing or is no regular
\* file, and after it, the call is in its except block or has raised, with
\* FileNotFoundError for a missing path and ValueError otherwise; the
\* checksum was not computed, the loader was not invoked, and no
\* repository call (insert, update_status) was made.
C4_InvalidPathNoSideEffect ==
    \A w \in Workers :
        (svc[w].pc # "idle" /\ PathKind(svc[w].path) # "file") =>
            /\ svc[w].pc \in {"except", "raised"}
            /\ svc[w].exc.type =
                  IF PathKind(svc[w].path) = "missing"
                  THEN "FileNotFoundError" ELSE "ValueError"
            /\ svc[w].n_checksum = 0
            /\ svc[w].n_load = 0
            /\ svc[w].n_insert = 0
            /\ svc[w].n_update = 0
            /\ svc[w].kf_id = NoId
            /\ call[w] = IdleCall

\* index_file has raised on a directory, after an earlier call inserted a
\* record: the table still holds that record alone.
C4_Witness ==
    \E w \in Workers :
        /\ svc[w].pc = "raised"
        /\ svc[w].path = "data/sub"
        /\ svc[w].exc.type = "ValueError"
        /\ Cardinality(DOMAIN rows) = 1

\* C5: a mutation that raised to its caller did not commit, and left no
\* transaction pending on the handle.
C5_RolledBackBeforeRaise ==
    \A w \in Workers :
        (call[w].pc = "raised" /\ IsMutation(call[w])) =>
            ~call[w].committed /\ call[w].txn = NoTxn

\* C6: a repository call that has returned or raised holds no open
\* connection handle.
C6_HandleReleased ==
    \A w \in Workers :
        call[w].pc \in {"returned", "raised"} => call[w].conn # "open"

\* Changing row r as one whole update_status(a) does.
WholeUpdate(r, a) ==
    IF a.status = "chunked"
    THEN [r EXCEPT
            !.status = "chunked",
            !.chunk_count = IF a.chunk_count \in {NullInt, 0}
                            THEN 0 ELSE a.chunk_count,
            !.chunk_profile = IF a.chunk_profile \in {NULL, ""}
                              THEN "default" ELSE a.chunk_profile]
    ELSE IF a.status = "embedded"
    THEN [r EXCEPT
            !.status = "embedded",
            !.vector_count = IF a.vector_count \in {NullInt, 0}
                             THEN 0 ELSE a.vector_count,
            !.embed_model = IF a.embed_model \in {NULL, ""}
                            THEN "unknown" ELSE a.embed_model]
    ELSE [r EXCEPT !.status = a.status]

\* A record whose status is chunked (embedded) carries its chunk (vector)
\* fields.
StageComplete(r) ==
    /\ r.status = "chunked" => r.chunk_count # NullInt /\ r.chunk_profile # NULL
    /\ r.status = "embedded" => r.vector_count # NullInt /\ r.embed_model # NULL

\* C7: with two caller threads interleaved at every handle operation, a
\* committed row changes only in the commit step of one update_status
\* call, and then by that call's whole effect at once: status together
\* with chunk_count and chunk_profile (chunked) or with vector_count and
\* embed_model (embedded); and a row get_by_id hands to a reader never has
\* a stage status without that stage's fields.
C7_StageUpdateAtomic ==
    [][/\ \A k \in DOMAIN rows :
            rows'[k] # rows[k] =>
                \E w \in Workers :
                    /\ call[w].pc = "commit"
                    /\ call'[w].committed
                    /\ call[w].op = "update_status"
                    /\ call[w].args.kf_id = k
                    /\ rows'[k] = WholeUpdate(rows[k], call[w].args)
       /\ \A w \in Workers :
            (call'[w].op = "get_by_id" /\ call'[w].result.kind = "row")
                => StageComplete(call'[w].result.row)]_vars

\* One thread's chunked update is executed and not yet committed while the
\* other thread's get_by_id, still in its call, has read the same record:
\* it got the parsed row without chunk fields.
C7_Witness ==
    \E w, v \in Workers :
        /\ w # v
        /\ call[w].pc = "commit"
        /\ call[w].op = "update_status"
        /\ call[w].args.status = "chunked"
        /\ call[v].op = "get_by_id"
        /\ call[v].pc = "close_cursor"
        /\ call[v].args.kf_id = call[w].args.kf_id
        /\ call[v].result.kind = "row"
        /\ call[v].result.row.status = "parsed"
        /\ call[v].result.row.chunk_count = NullInt

\* Every character is whitespace (so is the empty string).
Blank(t) == \A i \in 1..Len(t) : t[i] \in {" ", "\n", "\t"}

\* The path exists, has a format backend, and the backend parses it.
Loadable(p) ==
    /\ PathKind(p) # "missing"
    /\ Lower(Suffix(p)) \in {".pdf", ".docx", ".txt", ".md"}
    /\ ~BackendRaises(p)

\* The RawDocs of one file: one per non-blank unit, in the backend's order.
DocsOfFile(p) ==
    LET NonBlank(t) == ~Blank(t)
        kept == SelectSeq(BackendUnits(p), NonBlank)
    IN  [i \in 1..Len(kept) |->
            [text |-> kept[i], metadata |-> [source |-> p]]]

\* The RawDocs of the loadable files of a list, in list order.
RECURSIVE DocsOfFiles(_)
DocsOfFiles(paths) ==
    IF paths = << >> THEN << >>
    ELSE (IF Loadable(Head(paths)) THEN DocsOfFile(Head(paths)) ELSE << >>)
         \o DocsOfFiles(Tail(paths))

\* C8: load resilience.  On every list of paths, those with a raising
\* backend included, the generator never raises; what it has yielded so
\* far is a prefix of the RawDocs of the loadable paths of the list, and
\* once it is exhausted it has yielded exactly those.
C8_LoadResilient ==
    LET expected == DocsOfFiles(gen.paths)
    IN  /\ gen.st # "raised"
        /\ Len(gen.out) <= Len(expected)
        /\ gen.out = SubSeq(expected, 1, Len(gen.out))
        /\ gen.st = "done" => gen.out = expected

\* The generator is exhausted on a list of three paths whose second
\* path's backend was invoked and raised; the RawDocs of the first and of
\* the third path have been yielded.
C8_Witness ==
    /\ gen.st = "done"
    /\ gen.paths = <<"data/doc.txt", "scan.pdf", "data/NOTES.TXT">>
    /\ gen.invoked = gen.paths
    /\ Len(gen.out) = 3
    /\ gen.out[1].metadata.source = "data/doc.txt"
    /\ gen.out[3].metadata.source = "data/NOTES.TXT"

\* C9: extension filtering.  Every path discover_files returned and the
\* file of every RawDoc load() yielded has a lower-cased suffix that is one
\* of allowed_exts(); load() exhausted on the .txt file and the .xyz file,
\* in either order, has yielded exactly the RawDoc of the .txt file.
C9_ExtensionFilter ==
    /\ \A i \in 1..Len(found.files) :
          Lower(Suffix(found.files[i])) \in AllowedExts
    /\ \A i \in 1..Len(gen.out) :
          Lower(Suffix(gen.out[i].metadata.source)) \in AllowedExts
    /\ (/\ gen.st = "done"
        /\ gen.paths \in {<<"data/doc.txt", "data/x.xyz">>,
                          <<"data/x.xyz", "data/doc.txt">>})
       => gen.out = <<[text |-> <<"a", " ", "b">>,
                       metadata |-> [source |-> "data/doc.txt"]]>>

\* discover_files on the directory holding x.xyz returned the three
\* allowed files below it, and load() on the .xyz file followed by the
\* .txt file is exhausted with one RawDoc yielded.
C9_Witness ==
    /\ found.root = "data"
    /\ found.files = <<"data/NOTES.TXT", "data/doc.txt", "data/sub/deep.md">>
    /\ gen.st = "done"
    /\ gen.paths = <<"data/x.xyz", "data/doc.txt">>
    /\ Len(gen.out) = 1

\* C10: empty-content skip.  No RawDoc load() yielded has a text that is
\* empty or whitespace only; and once the generator is exhausted, every
\* unit that is not blank, of every file whose backend was invoked and
\* did not raise, has been yielded.
C10_BlankUnitsSkipped ==
    /\ \A i \in 1..Len(gen.out) : ~Blank(gen.out[i].text)
    /\ gen.st = "done" =>
          \A n \in 1..Len(gen.invoked) :
              LET p == gen.invoked[n]
              IN  ~BackendRaises(p) =>
                     \A j \in 1..Len(BackendUnits(p)) :
                         ~Blank(BackendUnits(p)[j]) =>
                            \E i \in 1..Len(gen.out) :
                               gen.out[i] =
                                  [text |-> BackendUnits(p)[j],
                                   metadata |-> [source |-> p]]

\* load() is exhausted on the file whose four units are " n", a
\* whitespace-only one, an empty one and "m": the first and the last were
\* yielded.
C10_Witness ==
    /\ gen.st = "done"
    /\ gen.paths = <<"data/NOTES.TXT">>
    /\ Len(gen.out) = 2
    /\ gen.out[1].text = <<" ", "n">>
    /\ gen.out[2].text = <<"m">>

\* C11: every RawDoc load() has yielded carries, in its metadata, the key
\* source_path holding the path of the file it was read from.
C11_MetadataHasSourcePath ==
    \A i \in 1..Len(gen.out) :
        /\ "source_path" \in DOMAIN gen.out[i].metadata
        /\ \E n \in 1..Len(gen.paths) :
              gen.out[i].metadata.source_path = gen.paths[n]

\* C12: discovery determinism.  The list discover_files returned is in
\* strictly ascending Path order (sorted, no path twice); and when the call
\* before it was on the same root, with the file system unchanged and
\* whatever the order in which the directory was enumerated, both calls
\* returned the same list.
C12_DiscoveryDeterministic ==
    /\ \A i, j \in 1..Len(found.files) :
          i < j => PathRank(found.files[i]) < PathRank(found.files[j])
    /\ found.again => found.files = found.before

\* discover_files ran twice in succession on the directory data and
\* returned its three allowed files both times.
C12_Witness ==
    /\ found.again
    /\ found.root = "data"
    /\ found.before = <<"data/NOTES.TXT", "data/doc.txt", "data/sub/deep.md">>
    /\ found.files = found.before

\* C13: index_file runs checksum -> load -> insert -> update_status in
\* that order, each at most once before the except block: the loader is
\* invoked only after the checksum, insert is called only after load() was
\* drained into a list of at least one RawDoc, update_status only after
\* insert returned the id.  No call inserts more than one record.  When
\* index_file has returned, each step ran exactly once and the returned id
\* names a record of this file with the computed checksum, the loader's
\* parser name for the file's extension, and status parsed.
C13_IndexFileOrder ==
    /\ Cardinality(DOMAIN rows) <= nops
    /\ \A w \in Workers :
          LET s == svc[w]
          IN  s.pc # "idle" =>
                /\ s.n_checksum <= 1
                /\ s.n_load <= s.n_checksum
                /\ s.n_insert <= s.n_load
                /\ s.n_insert = 1 => s.ndocs >= 1
                /\ s.n_update >= 1 => s.n_insert = 1 /\ s.kf_id # NoId
                /\ s.pc = "returned" =>
                      /\ s.n_checksum = 1 /\ s.n_load = 1
                      /\ s.n_insert = 1 /\ s.n_update = 1
                      /\ s.kf_id \in DOMAIN rows
                      /\ rows[s.kf_id].source_uri = s.path
                      /\ rows[s.kf_id].checksum = Md5(s.path)
                      /\ rows[s.kf_id].parser_profile =
                            (CASE Lower(Suffix(s.path)) = ".pdf" -> "pdf_parser"
                               [] Lower(Suffix(s.path)) = ".docx" -> "docx_parser"
                               [] Lower(Suffix(s.path)) = ".txt" -> "txt_parser"
                               [] Lower(Suffix(s.path)) = ".md" -> "markdown_parser"
                               [] OTHER -> "unknown")
                      /\ rows[s.kf_id].status = "parsed"

\* index_file has returned on NOTES.TXT: two RawDocs were loaded and the
\* only record is parsed, with the file's checksum and the txt parser.
C13_Witness ==
    \E w \in Workers :
        /\ svc[w].pc = "returned"
        /\ svc[w].path = "data/NOTES.TXT"
        /\ svc[w].ndocs = 2
        /\ DOMAIN rows = {svc[w].kf_id}
        /\ rows[svc[w].kf_id].file_ext = ".TXT"
        /\ rows[svc[w].kf_id].parser_profile = "txt_parser"
        /\ rows[svc[w].kf_id].status = "parsed"

\* C14: once index_file has invoked the loader on an existing regular
\* file for which load() yields no RawDoc (blank content, an extension
\* without backend, or a backend exception swallowed by load()), the call
\* is in its except block or has raised, with the ValueError of the
\* empty-result test; insert and update_status were not called and the
\* call made no repository call at all.
C14_EmptyLoadRaises ==
    \A w \in Workers :
        (/\ svc[w].pc # "idle"
         /\ PathKind(svc[w].path) = "file"
         /\ svc[w].n_load = 1
         /\ DocsOfFiles(<<svc[w].path>>) = << >>)
        => /\ svc[w].pc \in {"except", "raised"}
           /\ svc[w].exc = [type |-> "ValueError", op |-> "index_file",
                            at |-> "load", status |-> NULL]
           /\ svc[w].n_insert = 0
           /\ svc[w].n_update = 0
           /\ svc[w].kf_id = NoId
           /\ call[w] = IdleCall

\* index_file has raised the empty-result ValueError on the pdf whose
\* backend throws, and the table is empty.
C14_Witness ==
    \E w \in Workers :
        /\ svc[w].pc = "raised"
        /\ svc[w].path = "scan.pdf"
        /\ svc[w].exc.type = "ValueError"
        /\ svc[w].exc.at = "load"
        /\ svc[w].n_load = 1
        /\ rows = << >>

\* C15: when index_file has raised and its recovery call
\* update_status(kf_id, 'failed') raised too, the exception index_file
\* raised is the original one, that of the failed update_status(kf_id,
\* 'parsed'), and not the exception of the recovery call.
C15_OriginalErrorPropagates ==
    \A w \in Workers :
        (svc[w].pc = "raised" /\ svc[w].recovery = "failed") =>
            /\ call[w].pc = "raised"
            /\ call[w].exc.status = "failed"
            /\ svc[w].exc.type = "DbError"
            /\ svc[w].exc.op = "update_status"
            /\ svc[w].exc.status = "parsed"
            /\ svc[w].exc # call[w].exc

\* update_status(kf_id, 'parsed') failed at its commit, the recovery call
\* failed at connect, and index_file raised the commit error.
C15_Witness ==
    \E w \in Workers :
        /\ svc[w].pc = "raised"
        /\ svc[w].recovery = "failed"
        /\ svc[w].exc.at = "commit"
        /\ call[w].exc.at = "connect"

\* Record k was created by the index_file call of thread w: it is the
\* record whose id insert returned to it, or the record its insert call
\* committed before raising.
CreatedBy(w, k) ==
    \/ k = svc[w].kf_id
    \/ call[w].op = "insert" /\ call[w].committed /\ call[w].kf_id = k

\* C16: no silent partial success.  When index_file has raised, every
\* record that call created has status failed.
C16_NoPartialSuccess ==
    \A w \in Workers :
        svc[w].pc = "raised" =>
            \A k \in DOMAIN rows : CreatedBy(w, k) => rows[k].status = "failed"

\* C17: the status of every record in the table is one of pending, parsed,
\* chunked, embedded, failed.
C17_StatusInEnum ==
    \A k \in DOMAIN rows : rows[k].status \in Statuses

\* C18: the step in which update_status(k, status, ...) commits with a
\* status other than chunked and embedded changes, of row k, the status
\* column alone: chunk_count, chunk_profile, vector_count and embed_model
\* keep their values, whatever stage arguments the call was given.
C18_OtherStatusOnlyStatus ==
    [][\A w \in Workers :
          (/\ call[w].pc = "commit"
           /\ call'[w].committed
           /\ call[w].op = "update_status"
           /\ call[w].args.status \notin {"chunked", "embedded"}
           /\ call[w].args.kf_id \in DOMAIN rows)
          => rows'[call[w].args.kf_id] =
                [rows[call[w].args.kf_id] EXCEPT !.status = call[w].args.status]]_vars

\* update_status(k, 'failed', chunk_count = 0, chunk_profile = '',
\* vector_count = 0, embed_model = '') has committed on a record chunked
\* with 10 chunks: the record is failed and still shows the 10 chunks.
C18_Witness ==
    \E w \in Workers :
        /\ call[w].op = "update_status"
        /\ call[w].committed
        /\ call[w].args.status = "failed"
        /\ call[w].args.chunk_count = 0
        /\ call[w].args.kf_id \in DOMAIN rows
        /\ rows[call[w].args.kf_id].status = "failed"
        /\ rows[call[w].args.kf_id].chunk_count = 10
        /\ rows[call[w].args.kf_id].chunk_profile = "recursive_500_50"

\* C19: with one caller, once update_status(k, 'chunked', c, p) has
\* committed on an existing record, the record has status chunked,
\* chunk_count c and chunk_profile p, with 0 in place of a c left None and
\* 'default' in place of a p left None or empty; likewise
\* update_status(k, 'embedded', v, m) leaves status embedded, vector_count
\* v (0 for None) and embed_model m ('unknown' for None or empty).
C19_StageFieldsWithDefaults ==
    \A w \in Workers :
        (/\ call[w].op = "update_status"
         /\ call[w].committed
         /\ call[w].args.kf_id \in DOMAIN rows)
        => LET a == call[w].args
               r == rows[a.kf_id]
           IN  /\ a.status = "chunked" =>
                     /\ r.status = "chunked"
                     /\ r.chunk_count =
                           IF a.chunk_count = NullInt THEN 0 ELSE a.chunk_count
                     /\ r.chunk_profile =
                           IF a.chunk_profile \in {NULL, ""}
                           THEN "default" ELSE a.chunk_profile
               /\ a.status = "embedded" =>
                     /\ r.status = "embedded"
                     /\ r.vector_count =
                           IF a.vector_count = NullInt THEN 0 ELSE a.vector_count
                     /\ r.embed_model =
                           IF a.embed_model \in {NULL, ""}
                           THEN "unknown" ELSE a.embed_model

\* update_status(k, 'chunked') with no stage argument has committed: the
\* record is chunked with chunk_count 0 and chunk_profile 'default'.
C19_Witness ==
    \E w \in Workers :
        /\ call[w].op = "update_status"
        /\ call[w].committed
        /\ call[w].args.status = "chunked"
        /\ call[w].args.chunk_count = NullInt
        /\ call[w].args.chunk_profile = NULL
        /\ call[w].args.kf_id \in DOMAIN rows
        /\ rows[call[w].args.kf_id].chunk_count = 0
        /\ rows[call[w].args.kf_id].chunk_profile = "default"

\* C20: every record whose status is chunked or embedded has
\* chunk_count and chunk_profile set, and every record whose status is
\* embedded has vector_count and embed_model set.
C20_FieldsSetAtOrPastStage ==
    \A k \in DOMAIN rows :
        /\ rows[k].status \in {"chunked", "embedded"} =>
              rows[k].chunk_count # NullInt /\ rows[k].chunk_profile # NULL
        /\ rows[k].status = "embedded" =>
              rows[k].vector_count # NullInt /\ rows[k].embed_model # NULL

\* C21: a record's status is changed one stage at a time and no record is
\* deleted.  In every step, every record of the table is still in the
\* table, and when its status before and after the step are both among
\* pending, parsed, chunked, embedded, the step has moved it forward by at
\* most one stage.
C21_OneStageAtATime ==
    [][\A k \in DOMAIN rows :
          /\ k \in DOMAIN rows'
          /\ (/\ rows[k].status \in {"pending", "parsed", "chunked", "embedded"}
              /\ rows'[k].status \in {"pending", "parsed", "chunked", "embedded"})
             => StatusRank(rows'[k].status) - StatusRank(rows[k].status) <= 1]_vars

\* C22: the step in which insert(...) commits adds exactly one row to the
\* table, under an id no row had, and changes no other row; the id is what
\* the call returns, and the row has status parsed, the kb id, file name
\* and file size the call supplied, and, when the call names no version
\* (no custom_docs), version 1 (custom_docs 0).  A get_by_id whose SELECT
\* succeeds returns the row the table holds for the id at that moment, so
\* that get_by_id right after insert returns those values.
C22_InsertThenGet ==
    [][\A w \in Workers :
          /\ (/\ call[w].op = "insert"
              /\ call[w].pc = "commit"
              /\ call'[w].committed)
             => LET k == call[w].kf_id
                    a == call[w].args
                IN  /\ k \notin DOMAIN rows
                    /\ DOMAIN rows' = DOMAIN rows \cup {k}
                    /\ \A j \in DOMAIN rows : rows'[j] = rows[j]
                    /\ call'[w].result = [kind |-> "id", id |-> k]
                    /\ rows'[k].kf_id = k
                    /\ rows'[k].status = "parsed"
                    /\ rows'[k].kb_id = a.kb_id
                    /\ rows'[k].file_name = a.file_name
                    /\ rows'[k].file_size = a.file_size
                    /\ rows'[k].version =
                          IF "version" \in DOMAIN a THEN a.version ELSE 1
                    /\ rows'[k].custom_docs =
                          IF "custom_docs" \in DOMAIN a THEN a.custom_docs ELSE 0
          /\ (/\ call[w].op = "get_by_id"
              /\ call[w].pc = "execute"
              /\ call'[w].pc = "close_cursor"
              /\ call'[w].exc = NoExc)
             => call'[w].result =
                   IF call[w].args.kf_id \in DOMAIN rows
                   THEN [kind |-> "row", row |-> rows[call[w].args.kf_id]]
                   ELSE [kind |-> "notfound"]]_vars

\* insert(kb-001, data/doc.pdf, doc.pdf, .pdf, 12345, source_type = path),
\* naming neither version nor custom_docs, was the first call and
\* get_by_id on the returned id the second: it returned the parsed row
\* with version 1 and custom_docs 0.
C22_Witness ==
    \E w \in Workers :
        /\ nops = 2
        /\ call[w].op = "get_by_id"
        /\ call[w].pc = "returned"
        /\ call[w].result.kind = "row"
        /\ call[w].result.row.kf_id = call[w].args.kf_id
        /\ call[w].result.row.source_uri = "data/doc.pdf"
        /\ call[w].result.row.kb_id = "kb-001"
        /\ call[w].result.row.file_name = "doc.pdf"
        /\ call[w].result.row.file_size = 12345
        /\ call[w].result.row.status = "parsed"
        /\ call[w].result.row.version = 1
        /\ call[w].result.row.custom_docs = 0

\* The record id thread w holds: that of its insert call, in progress or
\* committed, or the one insert returned to its index_file call.
IdHeld(w) ==
    IF call[w].op = "insert" /\ (~Ended(call[w]) \/ call[w].committed)
    THEN call[w].kf_id
    ELSE svc[w].kf_id

\* C23: with two caller threads running index_file interleaved at every
\* handle operation, the two never hold the same record id, every row is
\* stored under its own id, and the status updates index_file makes after
\* its insert (to parsed, and to failed on recovery) are addressed to the
\* id its own insert returned.
C23_InsertsNeverCollide ==
    /\ \A k \in DOMAIN rows : rows[k].kf_id = k
    /\ \A w, v \in Workers :
          (w # v /\ IdHeld(w) # NoId) => IdHeld(w) # IdHeld(v)
    /\ \A w \in Workers :
          svc[w].pc \in {"updating", "recovering"} =>
              /\ call[w].op = "update_status"
              /\ svc[w].kf_id # NoId
              /\ call[w].args.kf_id = svc[w].kf_id
              /\ \A v \in Workers \ {w} : call[w].args.kf_id # IdHeld(v)

\* Both threads are inside insert at the same time, each before its
\* commit, with different ids; the table is still empty.
C23_Witness ==
    /\ rows = << >>
    /\ call["w1"].op = "insert" /\ call["w1"].pc = "commit"
    /\ call["w2"].op = "insert" /\ call["w2"].pc = "commit"
    /\ call["w1"].kf_id # call["w2"].kf_id

\* C24: update_status checks neither a version nor the current status.
\* With two caller threads interleaved at every handle operation, the step
\* in which update_status(k, status, ...) commits on an existing record
\* leaves the record with that call's status, whatever status the record
\* had and whatever the other thread has executed or committed on the same
\* record meanwhile: of two overlapping calls on one record both commit
\* and the one that commits last decides the status.
C24_LastCommitWins ==
    [][\A w \in Workers :
          (/\ call[w].op = "update_status"
           /\ call[w].pc = "commit"
           /\ call'[w].committed
           /\ call[w].args.kf_id \in DOMAIN rows)
          => /\ rows'[call[w].args.kf_id].status = call[w].args.status
             /\ \A j \in DOMAIN rows \ {call[w].args.kf_id} : rows'[j] = rows[j]]_vars

\* Two update_status calls on the same record overlap: both have
\* committed and neither has closed its cursor yet.  One set embedded with
\* 10 vectors, the other set chunked and committed last: the record is
\* chunked and carries the vector fields of the update it overrode.
C24_Witness ==
    \E w, v \in Workers :
        /\ w # v
        /\ call[w].op = "update_status" /\ call[v].op = "update_status"
        /\ call[w].args.kf_id = call[v].args.kf_id
        /\ call[w].committed /\ call[v].committed
        /\ call[w].pc = "close_cursor" /\ call[v].pc = "close_cursor"
        /\ call[w].args.status = "embedded"
        /\ call[v].args.status = "chunked"
        /\ call[w].args.kf_id \in DOMAIN rows
        /\ rows[call[w].args.kf_id].status = "chunked"
        /\ rows[call[w].args.kf_id].vector_count = 10

\* C25: re-ingesting a file creates a new revision.  In every step every
\* record stays in the table with the checksum it had, and afterwards no
\* two records that index_file created for the same knowledge base and
\* file name carry the same version.
C25_NewVersionPerIngest ==
    [][/\ \A k \in DOMAIN rows :
            k \in DOMAIN rows' /\ rows'[k].checksum = rows[k].checksum
       /\ \A j, k \in DOMAIN rows' :
            (/\ j # k
             /\ rows'[j].source_uri \in Paths
             /\ rows'[k].source_uri \in Paths
             /\ rows'[j].kb_id = rows'[k].kb_id
             /\ rows'[j].file_name = rows'[k].file_name)
            => rows'[j].version # rows'[k].version]_vars

\* The path exists and its lower-cased suffix has a format backend.
Invocable(p) ==
    PathKind(p) # "missing" /\ Lower(Suffix(p)) \in {".pdf", ".docx", ".txt", ".md"}

\* The invocable paths among the first m of a list, in list order.
InvocableUpTo(paths, m) ==
    SelectSeq(SubSeq(paths, 1, m), Invocable)

\* The position in gen.paths of the file whose backend was invoked last
\* (0: none was).
LastInvokedPos ==
    IF gen.invoked = << >> THEN 0
    ELSE CHOOSE m \in 1..Len(gen.paths) :
            /\ Invocable(gen.paths[m])
            /\ Len(InvocableUpTo(gen.paths, m)) = Len(gen.invoked)

\* C26: load() is incremental.  Before the first next() no backend has
\* been invoked and nothing was yielded.  At every moment the backends
\* invoked so far are those of the first invocable paths of the list, in
\* list order, each once; and when the backend of the path at position m
\* has been invoked, the consumer has already received every RawDoc of the
\* paths before m, and nothing of a path after m.
C26_LoadIncremental ==
    /\ gen.st = "created" => gen.invoked = << >> /\ gen.out = << >>
    /\ Len(gen.invoked) <= Len(InvocableUpTo(gen.paths, Len(gen.paths)))
    /\ gen.invoked =
          SubSeq(InvocableUpTo(gen.paths, Len(gen.paths)), 1, Len(gen.invoked))
    /\ LET m == LastInvokedPos
           before == DocsOfFiles(SubSeq(gen.paths, 1, m - 1))
           upto == DocsOfFiles(SubSeq(gen.paths, 1, m))
       IN  IF m = 0 THEN gen.out = << >>
           ELSE /\ Len(before) <= Len(gen.out)
                /\ Len(gen.out) <= Len(upto)
                /\ gen.out = SubSeq(upto, 1, Len(gen.out))

\* The consumer has pulled the one RawDoc of doc.txt, first of three
\* paths, and has not asked for more: the backend of NOTES.TXT, the
\* second path, has not been invoked.
C26_Witness ==
    /\ gen.st = "suspended"
    /\ gen.paths = <<"data/doc.txt", "data/NOTES.TXT", "scan.pdf">>
    /\ Len(gen.out) = 1
    /\ gen.invoked = <<"data/doc.txt">>

\* C27: load() never raises on a list that holds missing files and files
\* whose extension has no backend.  No backend is invoked for such a path
\* and no RawDoc comes from it; and once the generator is exhausted, the
\* backend of every other path of the list was invoked, those after a
\* skipped path included, and every RawDoc of every loadable path was
\* yielded.
C27_SkipsUnreadablePaths ==
    /\ gen.st # "raised"
    /\ \A n \in 1..Len(gen.invoked) :
          /\ PathKind(gen.invoked[n]) # "missing"
          /\ Lower(Suffix(gen.invoked[n])) \in {".pdf", ".docx", ".txt", ".md"}
    /\ \A i \in 1..Len(gen.out) :
          /\ PathKind(gen.out[i].metadata.source) # "missing"
          /\ Lower(Suffix(gen.out[i].metadata.source)) \in {".pdf", ".docx", ".txt", ".md"}
    /\ gen.st = "done" =>
          /\ gen.invoked = InvocableUpTo(gen.paths, Len(gen.paths))
          /\ \A n \in 1..Len(gen.paths) :
                Loadable(gen.paths[n]) =>
                    \A d \in 1..Len(DocsOfFile(gen.paths[n])) :
                        \E i \in 1..Len(gen.out) :
                            gen.out[i] = DocsOfFile(gen.paths[n])[d]

\* load() is exhausted on a missing file, a .xyz file and doc.txt, in
\* that order: only the backend of doc.txt was invoked and its RawDoc was
\* yielded.
C27_Witness ==
    /\ gen.st = "done"
    /\ gen.paths = <<"gone.txt", "data/x.xyz", "data/doc.txt">>
    /\ gen.invoked = <<"data/doc.txt">>
    /\ Len(gen.out) = 1
    /\ gen.out[1].metadata.source = "data/doc.txt"

\* The regular files of the file system whose extension, letter case
\* aside, is one of .pdf, .docx, .txt, .md.
AllowedFiles ==
    {"data/doc.txt", "data/NOTES.TXT", "data/sub/deep.md", "scan.pdf",
     "blank.md", "empty.docx"}

\* The paths below a directory, at any depth.
Under(d) ==
    CASE d = "data" ->
            {"data/doc.txt", "data/NOTES.TXT", "data/x.xyz", "data/sub",
             "data/sub/deep.md"}
      [] d = "data/sub" -> {"data/sub/deep.md"}
      [] OTHER -> {}

\* C30: what discover_files(root) returned.  For a root that does not
\* exist, the empty list; for a root that is a regular file, the list
\* holding root alone if its extension (lower-cased) is allowed and the
\* empty list if not; for a directory, a list without repetition whose
\* elements are exactly the regular files below root, at any depth, with
\* an allowed extension.
C30_DiscoverFilesResult ==
    found.root # NULL =>
        LET root == found.root
            files == found.files
        IN  /\ root = "gone.txt" => files = << >>
            /\ root \in {"data/doc.txt", "data/NOTES.TXT"} => files = <<root>>
            /\ root = "data/x.xyz" => files = << >>
            /\ (files = <<root>>) <=> (root \in AllowedFiles)
            /\ root \in {"data", "data/sub"} =>
                  /\ {files[i] : i \in 1..Len(files)} = Under(root) \cap AllowedFiles
                  /\ \A i, j \in 1..Len(files) : i # j => files[i] # files[j]

\* discover_files on the file NOTES.TXT, whose suffix is upper case,
\* returned that file; the call before it, on the same root, did too.
C30_Witness ==
    /\ found.root = "data/NOTES.TXT"
    /\ found.files = <<"data/NOTES.TXT">>
    /\ found.again

\* C28: when run() with an output directory has returned and no write
\* raised, the output directory holds as many files as load() produced
\* RawDocs, each RawDoc is the content of one of them, the returned list
\* names no file twice, and it names exactly the files of the directory.
C28_OneFilePerRawDoc ==
    (job.pc = "returned" /\ job.out_dir # NULL /\ job.nfail = 0) =>
        /\ Cardinality(job.files) = Len(gen.out)
        /\ \A i \in 1..Len(gen.out) :
              \E f \in job.files :
                  f.content = [text |-> gen.out[i].text,
                               metadata |-> gen.out[i].metadata]
        /\ \A i, j \in 1..Len(job.written) :
              i # j => job.written[i] # job.written[j]
        /\ {job.written[i] : i \in 1..Len(job.written)} =
              {f.path : f \in job.files}

\* What step 1 of run() makes of one input: the allowed files below a
\* directory, in ascending Path order, and any other path as it is.
Expansion(p) ==
    IF p \in {"data", "data/sub"}
    THEN SortedPaths(Under(p) \cap AllowedFiles)
    ELSE <<p>>

RECURSIVE Expansions(_)
Expansions(input) ==
    IF input = << >> THEN << >>
    ELSE Expansion(Head(input)) \o Expansions(Tail(input))

\* The candidate is an existing regular file with an allowed extension.
IsAllowedFile(p) == p \in AllowedFiles

\* C29: once run() has called load(), the candidates are the inputs in
\* input order with every directory replaced by what discover_files
\* returns for it, and the list load() was called with holds exactly the
\* candidates that exist, are regular files and have an allowed extension,
\* in candidate order, repetitions kept; every other candidate is recorded
\* as skipped.  A missing or unsupported path never makes run() raise: run()
\* raises only when creating the output directory failed.
C29_RunFiltersCandidates ==
    /\ job.pc \in SavePcs \cup {"returned", "raised"} =>
          /\ job.candidates = Expansions(job.input)
          /\ gen.paths = SelectSeq(job.candidates, IsAllowedFile)
          /\ job.valid_paths = gen.paths
          /\ Len(job.skipped) + Len(gen.paths) = Len(job.candidates)
          /\ \A i \in 1..Len(job.skipped) : job.skipped[i][1] \notin AllowedFiles
    /\ job.pc = "raised" => job.out_dir # NULL /\ job.ndocs = 0 /\ gen.st = "created"

\* run() without output directory on the list [gone.txt, data] has
\* returned the generator: the missing path was skipped and load() was
\* called with the three allowed files of the directory, without x.xyz.
C29_Witness ==
    /\ job.pc = "returned"
    /\ job.out_dir = NULL
    /\ job.input = <<"gone.txt", "data">>
    /\ job.candidates = <<"gone.txt", "data/NOTES.TXT", "data/doc.txt", "data/sub/deep.md">>
    /\ job.skipped = << <<"gone.txt", "not found">> >>
    /\ gen.paths = <<"data/NOTES.TXT", "data/doc.txt", "data/sub/deep.md">>

\* C31: with one caller, a get_by_id call that has returned raised
\* nothing and returned the record stored under the id when there is one,
\* and the not-found value when there is none; a get_by_id call that has
\* raised carries the exception of the failed handle operation.  The two
\* outcomes never coincide: not-found is a return, a store failure a raise.
C31_NotFoundIsNotAnError ==
    \A w \in Workers :
        call[w].op = "get_by_id" =>
            /\ call[w].pc = "returned" =>
                  /\ call[w].exc = NoExc
                  /\ call[w].result =
                        IF call[w].args.kf_id \in DOMAIN rows
                        THEN [kind |-> "row", row |-> rows[call[w].args.kf_id]]
                        ELSE [kind |-> "notfound"]
            /\ call[w].pc = "raised" =>
                  /\ call[w].exc # NoExc
                  /\ call[w].exc.type = "DbError"
                  /\ call[w].exc.op = "get_by_id"

\* get_by_id(2) has returned not-found, without exception, while the table
\* holds record 1.
C31_Witness ==
    \E w \in Workers :
        /\ call[w].op = "get_by_id"
        /\ call[w].pc = "returned"
        /\ call[w].args.kf_id = 2
        /\ call[w].result = [kind |-> "notfound"]
        /\ call[w].exc = NoExc
        /\ DOMAIN rows = {1}

\* C32: no internal retry.  Within one index_file call the loader is
\* invoked at most once, insert is called at most once and update_status
\* at most twice; a second update_status call is the recovery call with
\* status failed, made in the except block after the call with status
\* parsed raised.
C32_NoInternalRetry ==
    \A w \in Workers :
        svc[w].pc # "idle" =>
            /\ svc[w].n_load <= 1
            /\ svc[w].n_insert <= 1
            /\ svc[w].n_update <= 2
            /\ svc[w].n_update = 1 =>
                  /\ svc[w].pc \in {"updating", "except", "returned"}
                  /\ call[w].op = "update_status"
                  /\ call[w].args.status = "parsed"
            /\ svc[w].n_update = 2 =>
                  /\ svc[w].pc \in {"recovering", "raised"}
                  /\ svc[w].exc.op = "update_status"
                  /\ svc[w].exc.status = "parsed"
                  /\ call[w].op = "update_status"
                  /\ call[w].args.status = "failed"

\* index_file has raised after both of its update_status calls failed:
\* one load, one insert, two updates, and the record is still parsed.
C32_Witness ==
    \E w \in Workers :
        /\ svc[w].pc = "raised"
        /\ svc[w].n_load = 1
        /\ svc[w].n_insert = 1
        /\ svc[w].n_update = 2
        /\ svc[w].recovery = "failed"
        /\ rows[svc[w].kf_id].status = "parsed"

\* C33: when index_file is in its except block or has raised without
\* insert having returned an id (it failed at validation, at the checksum,
\* at load, on the empty result, at stat or inside insert), it has made no
\* update_status call, takes no recovery action, and raises the exception
\* of the step that failed.
C33_NoRecoveryBeforeInsertReturns ==
    \A w \in Workers :
        (svc[w].pc \in {"except", "raised"} /\ svc[w].kf_id = NoId) =>
            /\ svc[w].n_update = 0
            /\ svc[w].recovery = "none"
            /\ call[w].op # "update_status"
            /\ svc[w].exc.op \in {"index_file", "insert"}
            /\ svc[w].exc.op = "insert" => svc[w].exc = call[w].exc
            /\ svc[w].exc.op = "index_file" =>
                  /\ svc[w].n_insert = 0
                  /\ svc[w].exc.at \in {"validate", "checksum", "load", "stat"}

\* index_file has raised the exception of its insert call, which failed
\* when it executed the INSERT: no update_status was called and the table
\* is empty.
C33_Witness ==
    \E w \in Workers :
        /\ svc[w].pc = "raised"
        /\ svc[w].kf_id = NoId
        /\ svc[w].n_insert = 1
        /\ svc[w].exc.op = "insert"
        /\ svc[w].exc.at = "execute"
        /\ svc[w].n_update = 0
        /\ rows = << >>

\* The columns that identify a record and say where it came from.
ProvenanceColumns ==
    {"kf_id", "kb_id", "source_type", "source_uri", "file_name", "file_ext",
     "file_size", "file_mtime", "checksum", "version", "parser_profile",
     "custom_docs", "create_time"}

\* C34: no step of an update_status call, whatever its target status and
\* stage arguments, adds or removes a record id or changes kf_id, kb_id,
\* the source fields, checksum, version, parser_profile, custom_docs or
\* create_time of any record: they keep the values written by the INSERT.
C34_UpdateKeepsProvenance ==
    [][\A w \in Workers :
          (call[w].op = "update_status" /\ call'[w].op = "update_status") =>
              /\ DOMAIN rows' = DOMAIN rows
              /\ \A k \in DOMAIN rows :
                    \A col \in ProvenanceColumns :
                        rows'[k][col] = rows[k][col]]_vars

\* An update_status call to 'embedded' has committed on a record inserted
\* by a direct insert() call: the record has the status and the stage
\* fields of the call and still the kb_id, version, custom_docs, file_mtime
\* and create_time of its insertion.
C34_Witness ==
    \E w \in Workers :
        /\ call[w].op = "update_status"
        /\ call[w].committed
        /\ call[w].args.status = "embedded"
        /\ call[w].args.kf_id \in DOMAIN rows
        /\ LET r == rows[call[w].args.kf_id]
           IN /\ r.status = "embedded"
              /\ r.embed_model = "text-embedding-3-small"
              /\ r.kf_id = call[w].args.kf_id
              /\ r.kb_id = "kb-001"
              /\ r.version = 1
              /\ r.custom_docs = 0
              /\ r.create_time = Now(r.kf_id)
              /\ r.file_mtime = r.create_time

\* C35: when an update_status call commits, the table it leaves is the
\* table the same call (same id, status and stage arguments) leaves when it
\* is made again on it: the second application changes no status and no
\* stage field.  And an update_status to 'parsed' that commits on a record
\* whose status is 'parsed', as it is right after insert, changes nothing.
C35_UpdateIdempotent ==
    [][\A w \in Workers :
          (/\ call[w].op = "update_status"
           /\ call[w].pc = "commit"
           /\ call'[w].committed) =>
              /\ rows' = UpdateRows(rows, call[w].args.kf_id,
                                    SetClause(call[w].args))
              /\ UpdateRows(rows', call[w].args.kf_id,
                            SetClause(call[w].args)) = rows'
              /\ (/\ call[w].args.status = "parsed"
                  /\ call[w].args.kf_id \in DOMAIN rows
                  /\ rows[call[w].args.kf_id].status = "parsed")
                     => rows' = rows]_vars

\* The third call of a run, an update_status to 'chunked' with every stage
\* argument given, is about to commit on a record that the call before it,
\* with the same chunk arguments, has already made 'chunked'.
C35_Witness ==
    \E w \in Workers :
        /\ nops = 3
        /\ call[w].op = "update_status"
        /\ call[w].pc = "commit"
        /\ call[w].args.status = "chunked"
        /\ call[w].args.chunk_count = 10
        /\ call[w].args.kf_id \in DOMAIN rows
        /\ LET r == rows[call[w].args.kf_id]
           IN /\ r.status = "chunked"
              /\ r.chunk_count = 10
              /\ r.chunk_profile = "recursive_500_50"

\* The output paths of the RawDocs taken from the generator so far.
Targets ==
    {default_out_path(gen.out[i], job.out_dir) : i \in 1..Len(gen.out)}

\* The temporary files of the output directory that no write in progress
\* owns.
StrayTmpFiles ==
    {f \in job.files : f.path \notin Targets /\ f.path # job.tmp_file}

\* What holds of save() at every moment, whatever becomes of the temporary
\* files of failed writes: a file under an output path holds the complete
\* serialization of a RawDoc that has that output path and is reported as
\* written; the write in progress works on a temporary file that is no
\* output path; every RawDoc taken from the generator is either written and
\* reported or failed and not reported; and save() returns only when every
\* RawDoc of the generator has been processed.
SaveWritesViaTmp ==
    /\ \A f \in job.files :
          f.path \in Targets =>
             /\ \E i \in 1..Len(gen.out) :
                   /\ f.path = default_out_path(gen.out[i], job.out_dir)
                   /\ f.content = to_serializable(gen.out[i])
             /\ \E i \in 1..Len(job.written) : job.written[i] = f.path
    /\ \A i \in 1..Len(job.written) :
          \E f \in job.files : f.path = job.written[i]
    /\ Len(job.written) + job.nfail = job.ndocs
    /\ job.pc \in {"dump", "replace", "cleanup"} =>
          /\ job.tmp_file \notin Targets
          /\ \E f \in job.files : f.path = job.tmp_file
          /\ job.out_path = default_out_path(job.doc, job.out_dir)
          /\ job.ndocs = Len(gen.out) - 1
    /\ job.pc = "replace" =>
          \E f \in job.files : /\ f.path = job.tmp_file
                               /\ f.content = to_serializable(job.doc)
    /\ job.pc \in {"saving", "returned"} =>
          /\ job.tmp_file = NULL
          /\ job.ndocs = Len(gen.out)
    /\ job.pc = "returned" => gen.st = "done"

C37_ExtensionTablesAgree ==
    /\ AllowedExts = LoaderMapKeys
    /\ AllowedExts = DOMAIN parser_map
    /\ \A i \in 1..Len(found.files) :
          /\ HasBackend(Lower(Suffix(found.files[i])))
          /\ get_parser_name(found.files[i]) # "unknown"
          /\ get_parser_name(found.files[i]) =
                parser_map[Lower(Suffix(found.files[i]))]
    /\ \A p \in Paths :
          (get_parser_name(p) = "unknown") <=>
             (Lower(Suffix(p)) \notin AllowedExts)

\* discover_files('data') has returned NOTES.TXT, doc.txt and sub/deep.md,
\* whose parser names are txt_parser and markdown_parser, and left out
\* x.xyz, whose parser name is 'unknown'.
C37_Witness ==
    /\ found.root = "data"
    /\ found.files = <<"data/NOTES.TXT", "data/doc.txt", "data/sub/deep.md">>
    /\ get_parser_name("data/NOTES.TXT") = "txt_parser"
    /\ get_parser_name("data/sub/deep.md") = "markdown_parser"
    /\ get_parser_name("data/x.xyz") = "unknown"

\* C38: no step of an update_status call whose id no record has changes
\* the table: no record is created and none is changed.  When such a call
\* has ended it has returned without exception, unless an operation of
\* the database handle failed, in which case it raised that failure:
\* a missing id is never an error.
C38_UpdateOfMissingId ==
    [][\A w \in Workers :
          (/\ call[w].op = "update_status"
           /\ call'[w].op = "update_status"
           /\ call[w].args.kf_id \notin DOMAIN rows) =>
              /\ rows' = rows
              /\ call'[w].pc = "returned" =>
                    call'[w].exc = NoExc /\ call'[w].committed
              /\ call'[w].pc = "raised" =>
                    /\ call'[w].exc.type = "DbError"
                    /\ call'[w].exc.op = "update_status"]_vars

\* update_status(2, 'embedded') with every stage argument given has
\* committed and returned without exception while the table holds record 1
\* alone, still as insert wrote it.
C38_Witness ==
    \E w \in Workers :
        /\ call[w].op = "update_status"
        /\ call[w].pc = "returned"
        /\ call[w].committed
        /\ call[w].exc = NoExc
        /\ call[w].args.kf_id = 2
        /\ call[w].args.status = "embedded"
        /\ call[w].args.vector_count = 10
        /\ DOMAIN rows = {1}
        /\ rows[1].status = "parsed"
        /\ rows[1].vector_count = NullInt

====
